---- MODULE Spec2Model ----
(***************************************************************************)
(* Model of the real-time update core of vivify-backend:                   *)
(*   services/websocket_manager.py  MessageBatcher and WebSocketManager    *)
(*   api/routes/tasks.py            task_websocket (the stream endpoint)   *)
(*                                                                         *)
(* The program runs on one asyncio event loop.  A task runs without        *)
(* interruption until it reaches a suspension point: a transport call      *)
(* (accept, send_json, receive_json), the repository read, the flush       *)
(* delay, or the acquisition of an asyncio.Lock that is not free.  The     *)
(* variable cur names the task that is running between two suspension      *)
(* points; every other task waits until cur is NoProc.                     *)
(***************************************************************************)
EXTENDS Integers, Sequences, FiniteSets, TLC

VARIABLES
    enabled,              \* BatchConfig.enabled
    _pending,             \* MessageBatcher._pending: connection id -> list of PendingMessage
    _flush_tasks,         \* MessageBatcher._flush_tasks: connection id -> timer task (or NoTask)
    tasks,                \* the _delayed_flush tasks created by asyncio.create_task
    block,                \* MessageBatcher._lock
    _connections,         \* WebSocketManager._connections (its keys)
    _subscriptions,       \* WebSocketManager._subscriptions: channel -> connection ids
    _connection_channels, \* WebSocketManager._connection_channels: connection id -> channels
    rlock,                \* WebSocketManager._lock
    pc,                   \* position of each coroutine (handlers, producers, flusher)
    loc,                  \* locals of each coroutine
    wire,                 \* per connection, the frames handed to its transport whose
                          \* send_json has not returned yet, in the order handed
    cur,                  \* the task running now, or NoProc
    last,                 \* the last completed call on the batcher, with its result
    _cache,               \* InMemoryCache._cache: key -> (value, expiry)
    _access_order,        \* InMemoryCache._access_order
    now,                  \* datetime.utcnow()
    recency,              \* the keys ever used, in the order of their last use
    clast,                \* the last call on the cache, with the keys it evicted
    db,                   \* the row of the task in the database, as committed
    rpc,                  \* where each call on the task repository is
    rloc                  \* the locals of each call on the task repository

vars == <<enabled, _pending, _flush_tasks, tasks, block, _connections, _subscriptions,
          _connection_channels, rlock, pc, loc, wire, cur, last,
          _cache, _access_order, now, recency, clast, db, rpc, rloc>>

batcherVars == <<enabled, _pending, _flush_tasks, tasks, block>>
registryVars == <<_connections, _subscriptions, _connection_channels, rlock>>
cacheVars == <<_cache, _access_order, now, recency, clast>>
repoVars == <<db, rpc, rloc>>

----------------------------------------------------------------------------
(* Bounds of the model *)

\* BatchConfig.max_batch_size of the batcher under check
MaxBatchSize == 3

\* InMemoryCache._max_size of the cache under check
MaxCacheSize == 2

\* the clock stops here
MaxTime == 1

----------------------------------------------------------------------------
(* MessageType *)

SNAPSHOT == "snapshot"
PATCH == "patch"
BATCH_PATCH == "batch_patch"
PING == "ping"
PONG == "pong"
SUBSCRIBE == "subscribe"
UNSUBSCRIBE == "unsubscribe"

(* Connections, channels, tasks *)

Conns == {"c1", "c2"}
Channels == {"tasks"}
Producers == {"p1"}
\* two callers of the broadcasts at once
Producers2 == Producers \cup {"p2"}
Flusher == "f1"
TaskSeq == <<"t1", "t2", "t3">>
TaskIds == {TaskSeq[i] : i \in 1..Len(TaskSeq)}
NoTask == "none"
NoProc == "none"

----------------------------------------------------------------------------
(* JSON patch helpers *)

create_task_patch(task_id, fld, val) ==
    [op |-> "replace", path |-> "/tasks/" \o task_id \o "/" \o fld, value |-> val]

create_task_add_patch(task) ==
    [op |-> "add", path |-> "/tasks/" \o task.id, value |-> task]

create_task_remove_patch(task_id) ==
    [op |-> "remove", path |-> "/tasks/" \o task_id]

\* dict.get(key, default)
Get(d, k, default) == IF k \in DOMAIN d THEN d[k] ELSE default

PendingMessage(type, data, priority) ==
    [type |-> type, data |-> data, priority |-> priority]

----------------------------------------------------------------------------
(* MessageBatcher._optimize_batch                                          *)
(* path_patches is a Python dict: assigning to a key that is present keeps *)
(* the key's place (that of its first insertion) and replaces the value.   *)
(* It is modelled as the list of its items [k, v] in dict order.           *)

DictKeys(d) == {d[i].k : i \in 1..Len(d)}

\* a mutant of DictSet: the item is appended even when the key is present
DictSetAppend(d, k, v) == Append(d, [k |-> k, v |-> v])

\* path_patches[path] = patch
DictSet(d, k, v) ==
    IF k \in DictKeys(d)
    THEN [i \in 1..Len(d) |-> IF d[i].k = k THEN [k |-> k, v |-> v] ELSE d[i]]
    ELSE Append(d, [k |-> k, v |-> v])

DictValues(d) == [i \in 1..Len(d) |-> d[i].v]

\* a mutant of OptPatch: a remove is passed through instead of entering
\* path_patches
OptPatchRemoveApart(acc, type, patch) ==
    LET path == Get(patch, "path", "")
        op == Get(patch, "op", "none")
    IN  IF op \in {"replace", "add"}
        THEN [acc EXCEPT !.path_patches = DictSet(acc.path_patches, path, patch)]
        ELSE [acc EXCEPT !.other_messages =
                  Append(acc.other_messages, [type |-> type, data |-> patch])]

\* one patch of a PATCH message: lines 173-182
OptPatch(acc, type, patch) ==
    LET path == Get(patch, "path", "")
        op == Get(patch, "op", "none")
    IN  IF op \in {"replace", "add"}
        THEN [acc EXCEPT !.path_patches = DictSet(acc.path_patches, path, patch)]
        ELSE IF op = "remove"
        THEN [acc EXCEPT !.path_patches = DictSet(acc.path_patches, path, patch)]
        ELSE [acc EXCEPT !.other_messages =
                  Append(acc.other_messages, [type |-> type, data |-> patch])]

RECURSIVE OptPatches(_, _, _)
OptPatches(acc, type, patches) ==
    IF patches = <<>> THEN acc
    ELSE OptPatches(OptPatch(acc, type, Head(patches)), type, Tail(patches))

\* one message: lines 170-184
OptMessage(acc, msg) ==
    IF msg.type = PATCH
    THEN OptPatches(acc, msg.type, Get(msg.data, "patches", <<msg.data>>))
    ELSE [acc EXCEPT !.other_messages =
              Append(acc.other_messages, [type |-> msg.type, data |-> msg.data])]

RECURSIVE OptMessages(_, _)
OptMessages(acc, messages) ==
    IF messages = <<>> THEN acc
    ELSE OptMessages(OptMessage(acc, Head(messages)), Tail(messages))

\* lines 186-194: result = other_messages, then the merged PATCH entry
OptCombine(acc) ==
    IF acc.path_patches # <<>>
    THEN Append(acc.other_messages,
                [type |-> PATCH, data |-> [patches |-> DictValues(acc.path_patches)]])
    ELSE acc.other_messages

_optimize_batch(messages) ==
    OptCombine(OptMessages([path_patches |-> <<>>, other_messages |-> <<>>], messages))

\* a mutant of FlushBatch: the envelope is used for a single entry as well
FlushBatchAlwaysWraps(messages) ==
    IF messages = <<>> THEN <<>>
    ELSE LET optimized == _optimize_batch(messages)
         IN  << [type |-> BATCH_PATCH,
                 data |-> [patches |-> optimized, count |-> Len(optimized)]] >>

\* a mutant of FlushBatch: the envelope counts the messages drained
FlushBatchCountsMessages(messages) ==
    IF messages = <<>> THEN <<>>
    ELSE LET optimized == _optimize_batch(messages)
         IN  IF Len(optimized) = 1 THEN optimized
             ELSE << [type |-> BATCH_PATCH,
                      data |-> [patches |-> optimized, count |-> Len(messages)]] >>

(* MessageBatcher._flush, on the drained list: lines 136-153.  The         *)
(* envelope's timestamp is the wall clock and is left out.                 *)
FlushBatch(messages) ==
    IF messages = <<>> THEN <<>>
    ELSE LET optimized == _optimize_batch(messages)
         IN  IF Len(optimized) = 1 THEN optimized
             ELSE << [type |-> BATCH_PATCH,
                      data |-> [patches |-> optimized, count |-> Len(optimized)]] >>

----------------------------------------------------------------------------
(* asyncio.Lock: FIFO.  acquire() takes a free lock without suspending;    *)
(* otherwise the caller waits in line, and release() wakes the first       *)
(* waiter, which no later caller can overtake.                             *)

FreeLock == [holder |-> NoProc, q |-> <<>>]
LockIsFree(l) == l.holder = NoProc /\ l.q = <<>>
Acquired(l, p) == IF LockIsFree(l) THEN [holder |-> p, q |-> <<>>]
                  ELSE [l EXCEPT !.q = Append(@, p)]
Released(l) == IF l.q = <<>> THEN FreeLock
               ELSE [holder |-> Head(l.q), q |-> Tail(l.q)]
\* p has the lock; p is in the line of its waiters
Holds(l, p) == p # NoProc /\ l.holder = p
Waits(l, p) == \E i \in 1..Len(l.q) : l.q[i] = p
\* a cancelled waiter leaves the line
Without(l, p) == [l EXCEPT !.q = SelectSeq(@, LAMBDA x : x # p)]

----------------------------------------------------------------------------
(* The _delayed_flush tasks.  st: sleep (in asyncio.sleep), wait (at the   *)
(* batcher lock), write (in flush_callback, holding the lock), done.  A    *)
(* slot is free when its task was cancelled, or finished and is no longer  *)
(* referenced by _flush_tasks.                                             *)

FreeTask == [conn |-> "none", st |-> "free"]
Outstanding(t) == tasks[t].st \in {"sleep", "wait", "write"}
OutstandingFor(c) == {t \in TaskIds : tasks[t].conn = c /\ Outstanding(t)}

\* the slot a new task for c takes: the names of the tasks carry no meaning
SlotOrder(c) == IF c = "c1" THEN TaskSeq ELSE <<"t2", "t1", "t3">>
FirstFree(ts, c) ==
    SlotOrder(c)[CHOOSE i \in 1..Len(TaskSeq) :
                     /\ ts[SlotOrder(c)[i]].st = "free"
                     /\ \A j \in 1..(i - 1) : ts[SlotOrder(c)[j]].st # "free"]

\* a mutant of NeedsTimer: a timer is scheduled on every deferred message
NeedsTimerAlways(c) == TRUE

\* line 108: connection_id not in self._flush_tasks or self._flush_tasks[connection_id].done()
NeedsTimer(c) == _flush_tasks[c] = NoTask \/ tasks[_flush_tasks[c]].st = "done"

\* a mutant of ScheduleFlush: add_message never creates the timer task
ScheduleFlushNever(c) == UNCHANGED <<_flush_tasks, tasks>>

\* lines 107-111: asyncio.create_task(self._delayed_flush(...)); a finished
\* task that the dict no longer references is garbage
ScheduleFlush(c) ==
    IF NeedsTimer(c)
    THEN LET ts == IF _flush_tasks[c] # NoTask /\ tasks[_flush_tasks[c]].st = "done"
                   THEN [tasks EXCEPT ![_flush_tasks[c]] = FreeTask] ELSE tasks
         IN  /\ \E t \in TaskIds : ts[t].st = "free"
             /\ tasks' = [ts EXCEPT ![FirstFree(ts, c)] = [conn |-> c, st |-> "sleep"]]
             /\ _flush_tasks' = [_flush_tasks EXCEPT ![c] = FirstFree(ts, c)]
    ELSE UNCHANGED <<_flush_tasks, tasks>>

\* a mutant of ShouldFlush: the size test is > instead of >=
ShouldFlushOffByOne(priority, n) == priority > 0 \/ n > MaxBatchSize

\* a mutant of ShouldFlush: only the size triggers a flush
ShouldFlushSizeOnly(priority, n) == n >= MaxBatchSize

\* lines 99-102
ShouldFlush(priority, n) == priority > 0 \/ n >= MaxBatchSize

(* The result of a call: None, or the list it returns *)
RetNone == [none |-> TRUE, batch |-> <<>>]
Ret(batch) == [none |-> FALSE, batch |-> batch]
\* Python's "if batch:"
Truthy(r) == ~r.none /\ r.batch # <<>>

\* a mutant of AddMessageDisabled: the message is queued as well
AddMessageDisabledQueues(c, type, data) ==
    /\ _pending' = [_pending EXCEPT ![c] = Append(@, PendingMessage(type, data, 0))]
    /\ UNCHANGED <<_flush_tasks, tasks>>

\* lines 86-88: batching disabled
AddMessageDisabled(c, type, data) == UNCHANGED <<_pending, _flush_tasks, tasks>>

\* a mutant of AddMessageLocked: a flush leaves the queue in place
AddMessageLockedKeepsQueue(c, type, data, priority) ==
    LET q == Append(_pending[c], PendingMessage(type, data, priority))
    IN  IF ShouldFlush(priority, Len(q))
        THEN /\ _pending' = [_pending EXCEPT ![c] = q]
             /\ UNCHANGED <<_flush_tasks, tasks>>
        ELSE /\ _pending' = [_pending EXCEPT ![c] = q]
             /\ ScheduleFlush(c)

\* lines 91-113, under the batcher lock: the queue and the timer after the call
AddMessageLocked(c, type, data, priority) ==
    LET q == Append(_pending[c], PendingMessage(type, data, priority))
    IN  IF ShouldFlush(priority, Len(q))
        THEN /\ _pending' = [_pending EXCEPT ![c] = <<>>]
             /\ UNCHANGED <<_flush_tasks, tasks>>
        ELSE /\ _pending' = [_pending EXCEPT ![c] = q]
             /\ ScheduleFlush(c)

\* lines 86-113: what add_message returns
AddMessageReturn(c, type, data, priority) ==
    IF ~enabled THEN Ret(<<[type |-> type, data |-> data]>>)
    ELSE LET q == Append(_pending[c], PendingMessage(type, data, priority))
         IN  IF ShouldFlush(priority, Len(q)) THEN Ret(FlushBatch(q)) ELSE RetNone

\* a mutant of CancelTimer: the timer is left running
CancelTimerNot(c) ==
    [tasks |-> tasks, _flush_tasks |-> _flush_tasks, block |-> block]

\* lines 200-202 and 209-211: cancel and forget the timer.  The caller holds
\* the batcher lock, so the task sleeps, waits in line, or has finished; a
\* cancelled task never runs again.  The values after the cancellation.
CancelTimer(c) ==
    IF _flush_tasks[c] # NoTask
    THEN [tasks |-> [tasks EXCEPT ![_flush_tasks[c]] = FreeTask],
          _flush_tasks |-> [_flush_tasks EXCEPT ![c] = NoTask],
          block |-> Without(block, _flush_tasks[c])]
    ELSE [tasks |-> tasks, _flush_tasks |-> _flush_tasks, block |-> block]

\* the end of a _delayed_flush task
Finished(ts, t) == IF _flush_tasks[ts[t].conn] = t
                   THEN [ts EXCEPT ![t].st = "done"]
                   ELSE [ts EXCEPT ![t] = FreeTask]

----------------------------------------------------------------------------
(* Initial state: after MessageBatcher() and WebSocketManager()            *)

NoMsg == [type |-> "none"]
NoCall == [op |-> "none", conn |-> "none", msg |-> NoMsg, before |-> <<>>,
           ret |-> RetNone]
Call(op, c, msg, before, ret) ==
    [op |-> op, conn |-> c, msg |-> msg, before |-> before, ret |-> ret]

Procs == Conns \cup Producers2 \cup {Flusher}

InitLoc == [p \in Procs |->
              IF p \in Conns
              THEN [ch |-> "none", back |-> "none"]
              ELSE [ch |-> "none", todo |-> {}, seen |-> {}, conn |-> "none",
                    msg |-> NoMsg, failed |-> FALSE]]

\* the calls on the task repository: two of get_task, one of update_task,
\* all for the task "7"
Getters == {"g1", "g2"}
Updaters == {"u1"}
TheTask == "7"

\* a task as to_dict gives it, with the column that the update writes; the
\* row of test_update_task before the update; Python's None
Original == [id |-> TheTask, title |-> "Original"]
NoRow == [id |-> "None", title |-> "None"]
NoRepoCall == [after |-> FALSE, row |-> NoRow, ret |-> NoRow]

\* cache.py 50-51: an empty dict, an empty list
EmptyCache == [k \in {} |-> [value |-> "", expiry |-> 0]]
NoCacheCall == [op |-> "none", evicted |-> <<>>]

InitCommon ==
    /\ _cache = EmptyCache
    /\ _access_order = <<>>
    /\ now = 0
    /\ recency = <<>>
    /\ clast = NoCacheCall
    /\ db = Original
    /\ rpc = [r \in Getters \cup Updaters |-> "idle"]
    /\ rloc = [r \in Getters \cup Updaters |-> NoRepoCall]
    /\ _pending = [c \in Conns |-> <<>>]
    /\ _flush_tasks = [c \in Conns |-> NoTask]
    /\ tasks = [t \in TaskIds |-> FreeTask]
    /\ block = FreeLock
    /\ _connections = {}
    /\ _subscriptions = [ch \in Channels |-> {}]
    /\ _connection_channels = [c \in Conns |-> {}]
    /\ rlock = FreeLock
    /\ pc = [p \in Procs |-> IF p \in Conns THEN "accept" ELSE "idle"]
    /\ loc = InitLoc
    /\ wire = [c \in Conns |-> <<>>]
    /\ cur = NoProc
    /\ last = NoCall

----------------------------------------------------------------------------
(* The batcher alone, called as its unit tests call it: one call at a      *)
(* time, a flush_callback that does not suspend.  The lock is then free at *)
(* every call, and each call runs to its end without suspending.           *)

Replace(p, v) == [op |-> "replace", path |-> p, value |-> v]
Remove(p) == [op |-> "remove", path |-> p]
Patches(ps) == [patches |-> ps]

BPatchData ==
    { Patches(<<Replace("/a", 1)>>), Patches(<<Replace("/a", 2)>>),
      Patches(<<Replace("/b", 1)>>), Patches(<<Remove("/a")>>),
      Patches(<<[op |-> "add", path |-> "/a", value |-> 1], Replace("/b", 2)>>),
      Patches(<<>>),
      [op |-> "test", path |-> "/a", value |-> 1] }

\* the (type, data) pairs a caller passes for connection c
BInputs(c) ==
    IF c = "c1"
    THEN {[type |-> PATCH, data |-> d] : d \in BPatchData}
         \cup {[type |-> PING, data |-> [timestamp |-> 1]]}
    ELSE {[type |-> PATCH, data |-> Patches(<<Replace("/a", 1)>>)]}

Priorities == {0, 1}

unusedByBatcher == <<block, _connections, _subscriptions, _connection_channels, rlock,
                     pc, loc, wire, cur>>

\* await batcher.add_message(c, type, data, priority, flush_callback)
BAddMessage(c, type, data, priority) ==
    /\ IF ~enabled THEN AddMessageDisabled(c, type, data)
       ELSE AddMessageLocked(c, type, data, priority)
    /\ last' = Call("add_message", c, PendingMessage(type, data, priority),
                    _pending[c], AddMessageReturn(c, type, data, priority))
    /\ UNCHANGED <<cacheVars, repoVars, enabled>> /\ UNCHANGED unusedByBatcher

\* await batcher.flush_all(c): lines 196-204
BFlushAll(c) ==
    /\ tasks' = CancelTimer(c).tasks
    /\ _flush_tasks' = CancelTimer(c)._flush_tasks
    /\ _pending' = [_pending EXCEPT ![c] = <<>>]
    /\ last' = Call("flush_all", c, NoMsg, _pending[c], Ret(FlushBatch(_pending[c])))
    /\ UNCHANGED <<cacheVars, repoVars, enabled>> /\ UNCHANGED unusedByBatcher

\* await batcher.clear(c): lines 206-212
BClear(c) ==
    /\ tasks' = CancelTimer(c).tasks
    /\ _flush_tasks' = CancelTimer(c)._flush_tasks
    /\ _pending' = [_pending EXCEPT ![c] = <<>>]
    /\ last' = Call("clear", c, NoMsg, _pending[c], RetNone)
    /\ UNCHANGED <<cacheVars, repoVars, enabled>> /\ UNCHANGED unusedByBatcher

\* the delay of task t elapses: lines 121-127, flush_callback(batch) recorded in last
BTimer(t) ==
    /\ tasks[t].st = "sleep"
    /\ LET c == tasks[t].conn
       IN  /\ _pending' = [_pending EXCEPT ![c] = <<>>]
           /\ last' = IF _pending[c] # <<>>
                      THEN Call("timer", c, NoMsg, _pending[c], Ret(FlushBatch(_pending[c])))
                      ELSE Call("timer", c, NoMsg, <<>>, RetNone)
    /\ tasks' = Finished(tasks, t)
    /\ UNCHANGED <<cacheVars, repoVars, enabled, _flush_tasks>> /\ UNCHANGED unusedByBatcher

InitBatcher == InitCommon /\ enabled \in BOOLEAN

NextBatcher ==
    \/ \E c \in Conns : \E i \in BInputs(c) : \E p \in Priorities :
           BAddMessage(c, i.type, i.data, p)
    \/ \E c \in Conns : BFlushAll(c)
    \/ \E c \in Conns : BClear(c)
    \/ \E t \in TaskIds : BTimer(t)

SpecBatcher == InitBatcher /\ [][NextBatcher]_vars

----------------------------------------------------------------------------
(* The registry with its batcher, the stream endpoint, producers that      *)
(* broadcast, and a caller of flush_connection, as tasks of one event loop *)

\* p may take a step: it is running, or nothing runs and what it waits for came
Go(p, woken) == cur = p \/ (cur = NoProc /\ woken)

\* the task that goes on after p asked for lock l: p itself when it got the lock
After(l, p) == IF LockIsFree(l) THEN p ELSE NoProc

Frame(type, data) == [type |-> type, data |-> data]

\* await websocket.send_json(message), called by task p: the frame is handed
\* to the transport of c
Sent(c, p, frame) == [wire EXCEPT ![c] = Append(@, [by |-> p, frame |-> frame])]

\* the send_json that task p awaits on the transport of c returns or raises
Returned(c, p) == [wire EXCEPT ![c] = SelectSeq(@, LAMBDA w : w.by # p)]

Task7 == [id |-> "7", status |-> 1]

\* a mutant of RegInputs: a creation is submitted at priority 0
RegInputsCreatedDeferred ==
    << [type |-> PATCH, priority |-> 0,
        data |-> Patches(<<create_task_patch("7", "status", 1)>>)],
       [type |-> PATCH, priority |-> 0,
        data |-> Patches(<<create_task_add_patch(Task7)>>)],
       [type |-> PATCH, priority |-> 1,
        data |-> Patches(<<create_task_remove_patch("7")>>)] >>

\* what the task routes broadcast, lines 417-458: broadcast_task_update with
\* one field, broadcast_task_created, broadcast_task_deleted
RegInputs ==
    << [type |-> PATCH, priority |-> 0,
        data |-> Patches(<<create_task_patch("7", "status", 1)>>)],
       [type |-> PATCH, priority |-> 1,
        data |-> Patches(<<create_task_add_patch(Task7)>>)],
       [type |-> PATCH, priority |-> 1,
        data |-> Patches(<<create_task_remove_patch("7")>>)] >>

(* ---- task_websocket, for connection c: api/routes/tasks.py 272-336 ---- *)

\* a mutant of HAccept: the connection is stored before accept has returned
HAcceptStoresFirst(c) ==
    /\ pc[c] = "accept" /\ cur = NoProc
    /\ _connections' = _connections \cup {c}
    /\ \/ /\ pc' = [pc EXCEPT ![c] = "end"]
          /\ UNCHANGED <<rlock, cur>>
       \/ /\ rlock' = Acquired(rlock, c)
          /\ cur' = After(rlock, c)
          /\ pc' = [pc EXCEPT ![c] = "conn_cs"]
    /\ UNCHANGED <<_subscriptions, _connection_channels, loc, wire, last>>
    /\ UNCHANGED batcherVars /\ UNCHANGED <<cacheVars, repoVars, repoVars>>

\* lines 233-243: websocket.accept() returns or raises
HAccept(c) ==
    /\ pc[c] = "accept" /\ cur = NoProc
    /\ \/ /\ pc' = [pc EXCEPT ![c] = "end"]
          /\ UNCHANGED <<rlock, cur>>
       \/ /\ rlock' = Acquired(rlock, c)
          /\ cur' = After(rlock, c)
          /\ pc' = [pc EXCEPT ![c] = "conn_cs"]
    /\ UNCHANGED <<_connections, _subscriptions, _connection_channels, loc, wire, last>>
    /\ UNCHANGED batcherVars /\ UNCHANGED <<cacheVars, repoVars, repoVars>>

\* lines 237-240 under the registry lock, then the call of subscribe (tasks.py 296-297)
HConnCS(c) ==
    /\ pc[c] = "conn_cs" /\ Go(c, rlock.holder = c)
    /\ _connections' = _connections \cup {c}
    /\ \E ch \in Channels : loc' = [loc EXCEPT ![c].ch = ch, ![c].back = "list"]
    /\ rlock' = Acquired(Released(rlock), c)
    /\ cur' = After(Released(rlock), c)
    /\ pc' = [pc EXCEPT ![c] = "sub_cs"]
    /\ UNCHANGED <<_subscriptions, _connection_channels, wire, last>>
    /\ UNCHANGED batcherVars /\ UNCHANGED <<cacheVars, repoVars, repoVars>>

\* lines 263-266 under the registry lock; the caller then awaits
\* repo.list_tasks (back = "list") or websocket.receive_json (back = "recv")
HSubCS(c) ==
    /\ pc[c] = "sub_cs" /\ Go(c, rlock.holder = c)
    /\ _subscriptions' = [_subscriptions EXCEPT ![loc[c].ch] = @ \cup {c}]
    /\ _connection_channels' = [_connection_channels EXCEPT ![c] = @ \cup {loc[c].ch}]
    /\ rlock' = Released(rlock)
    /\ pc' = [pc EXCEPT ![c] = loc[c].back]
    /\ loc' = [loc EXCEPT ![c].ch = "none", ![c].back = "none"]
    /\ cur' = NoProc
    /\ UNCHANGED <<_connections, wire, last>>
    /\ UNCHANGED batcherVars /\ UNCHANGED <<cacheVars, repoVars, repoVars>>

\* disconnect(c) is called and asks for the registry lock: line 247
CallDisconnect(c, back) ==
    /\ rlock' = Acquired(rlock, c)
    /\ cur' = After(rlock, c)
    /\ pc' = [pc EXCEPT ![c] = "disc_cs"]
    /\ loc' = [loc EXCEPT ![c].back = back]

\* a mutant of CallSendImmediate: the identity table is not consulted
CallSendImmediateUnchecked(c, type, data) ==
    /\ pc' = [pc EXCEPT ![c] = "imm_io"]
    /\ wire' = Sent(c, c, Frame(type, data))

\* a mutant of CallSendImmediate: the message goes out in the envelope of a
\* batch
CallSendImmediateWrapped(c, type, data) ==
    IF c \notin _connections
    THEN /\ pc' = [pc EXCEPT ![c] = "recv"]
         /\ UNCHANGED wire
    ELSE /\ pc' = [pc EXCEPT ![c] = "imm_io"]
         /\ wire' = Sent(c, c, Frame(BATCH_PATCH,
                                     [patches |-> <<Frame(type, data)>>, count |-> 1]))

\* send_immediate(c, type, data) up to its send_json: lines 333-340
CallSendImmediate(c, type, data) ==
    IF c \notin _connections
    THEN /\ pc' = [pc EXCEPT ![c] = "recv"]
         /\ UNCHANGED wire
    ELSE /\ pc' = [pc EXCEPT ![c] = "imm_io"]
         /\ wire' = Sent(c, c, Frame(type, data))

\* tasks.py 300-307: repo.list_tasks returns and the snapshot is sent, or it
\* raises and the finally clause disconnects
HList(c) ==
    /\ pc[c] = "list" /\ cur = NoProc
    /\ \/ /\ CallSendImmediate(c, SNAPSHOT, [tasks |-> "all"])
          /\ UNCHANGED <<rlock, cur, loc>>
       \/ /\ CallDisconnect(c, "end")
          /\ UNCHANGED wire
    /\ UNCHANGED <<_connections, _subscriptions, _connection_channels, last>>
    /\ UNCHANGED batcherVars /\ UNCHANGED <<cacheVars, repoVars, repoVars>>

\* lines 339-343: send_json returns, or raises and send_immediate disconnects
HImmIO(c) ==
    /\ pc[c] = "imm_io" /\ cur = NoProc
    /\ wire' = Returned(c, c)
    /\ \/ /\ pc' = [pc EXCEPT ![c] = "recv"]
          /\ UNCHANGED <<rlock, cur, loc>>
       \/ CallDisconnect(c, "recv")
    /\ UNCHANGED <<_connections, _subscriptions, _connection_channels, last>>
    /\ UNCHANGED batcherVars /\ UNCHANGED <<cacheVars, repoVars, repoVars>>

\* tasks.py 310-327: receive_json returns a client frame: a ping, answered by
\* send_immediate, or a subscribe or unsubscribe for a channel
HRecv(c) ==
    /\ pc[c] = "recv" /\ cur = NoProc
    /\ \/ /\ CallSendImmediate(c, PONG, [timestamp |-> 1])
          /\ UNCHANGED <<rlock, cur, loc>>
       \/ /\ \E ch \in Channels, to \in {"sub_cs", "unsub_cs"} :
                /\ loc' = [loc EXCEPT ![c].ch = ch, ![c].back = "recv"]
                /\ pc' = [pc EXCEPT ![c] = to]
          /\ rlock' = Acquired(rlock, c)
          /\ cur' = After(rlock, c)
          /\ UNCHANGED wire
    /\ UNCHANGED <<_connections, _subscriptions, _connection_channels, last>>
    /\ UNCHANGED batcherVars /\ UNCHANGED <<cacheVars, repoVars, repoVars>>

\* a mutant of HClose: the handler returns without calling disconnect
HCloseReturns(c) ==
    /\ pc[c] = "recv" /\ cur = NoProc
    /\ pc' = [pc EXCEPT ![c] = "end"]
    /\ UNCHANGED <<_connections, _subscriptions, _connection_channels, wire, last,
                   rlock, cur, loc>>
    /\ UNCHANGED batcherVars /\ UNCHANGED <<cacheVars, repoVars, repoVars>>

\* tasks.py 329-336: receive_json raises (a malformed frame, a closed
\* transport); the loop ends and the finally clause disconnects
HClose(c) ==
    /\ pc[c] = "recv" /\ cur = NoProc
    /\ CallDisconnect(c, "end")
    /\ UNCHANGED <<_connections, _subscriptions, _connection_channels, wire, last>>
    /\ UNCHANGED batcherVars /\ UNCHANGED <<cacheVars, repoVars, repoVars>>

\* a mutant of HUnsubCS: only the member set of the channel is updated
HUnsubCSOneIndex(c) ==
    /\ pc[c] = "unsub_cs" /\ Go(c, rlock.holder = c)
    /\ _subscriptions' = [_subscriptions EXCEPT ![loc[c].ch] = @ \ {c}]
    /\ rlock' = Released(rlock)
    /\ pc' = [pc EXCEPT ![c] = "recv"]
    /\ loc' = [loc EXCEPT ![c].ch = "none", ![c].back = "none"]
    /\ cur' = NoProc
    /\ UNCHANGED <<_connections, _connection_channels, wire, last>>
    /\ UNCHANGED batcherVars /\ UNCHANGED <<cacheVars, repoVars, repoVars>>

\* lines 270-272 under the registry lock
HUnsubCS(c) ==
    /\ pc[c] = "unsub_cs" /\ Go(c, rlock.holder = c)
    /\ _subscriptions' = [_subscriptions EXCEPT ![loc[c].ch] = @ \ {c}]
    /\ _connection_channels' = [_connection_channels EXCEPT ![c] = @ \ {loc[c].ch}]
    /\ rlock' = Released(rlock)
    /\ pc' = [pc EXCEPT ![c] = "recv"]
    /\ loc' = [loc EXCEPT ![c].ch = "none", ![c].back = "none"]
    /\ cur' = NoProc
    /\ UNCHANGED <<_connections, wire, last>>
    /\ UNCHANGED batcherVars /\ UNCHANGED <<cacheVars, repoVars, repoVars>>

\* a mutant of HDiscCS: the membership sets keep the connection
HDiscCSKeepsMembership(c) ==
    /\ pc[c] = "disc_cs" /\ Go(c, rlock.holder = c)
    /\ _connections' = _connections \ {c}
    /\ _connection_channels' = [_connection_channels EXCEPT ![c] = {}]
    /\ block' = Acquired(block, c)
    /\ cur' = After(block, c)
    /\ pc' = [pc EXCEPT ![c] = "clear_cs"]
    /\ UNCHANGED <<cacheVars, repoVars, enabled, _pending, _flush_tasks, tasks, rlock, loc, wire, last,
                   _subscriptions>>

\* lines 248-257 under the registry lock, up to the batcher lock of clear (208)
HDiscCS(c) ==
    /\ pc[c] = "disc_cs" /\ Go(c, rlock.holder = c)
    /\ _connections' = _connections \ {c}
    /\ _connection_channels' = [_connection_channels EXCEPT ![c] = {}]
    /\ _subscriptions' = [ch \in Channels |->
                            IF ch \in _connection_channels[c]
                            THEN _subscriptions[ch] \ {c} ELSE _subscriptions[ch]]
    /\ block' = Acquired(block, c)
    /\ cur' = After(block, c)
    /\ pc' = [pc EXCEPT ![c] = "clear_cs"]
    /\ UNCHANGED <<cacheVars, repoVars, enabled, _pending, _flush_tasks, tasks, rlock, loc, wire, last>>

\* lines 209-212 under both locks, then both are released (212, 257); the
\* handler goes back to receive_json or ends
HClearCS(c) ==
    /\ pc[c] = "clear_cs" /\ Go(c, block.holder = c)
    /\ tasks' = CancelTimer(c).tasks
    /\ _flush_tasks' = CancelTimer(c)._flush_tasks
    /\ block' = Released(CancelTimer(c).block)
    /\ _pending' = [_pending EXCEPT ![c] = <<>>]
    /\ rlock' = Released(rlock)
    /\ pc' = [pc EXCEPT ![c] = loc[c].back]
    /\ loc' = [loc EXCEPT ![c].back = "none"]
    /\ cur' = NoProc
    /\ UNCHANGED <<cacheVars, repoVars, enabled, _connections, _subscriptions, _connection_channels, wire,
                   last>>

(* ---- a producer p: broadcast_to_channel, lines 301-312 ---- *)

\* line 309: the membership is copied
PBroadcast(p) ==
    /\ pc[p] = "idle" /\ cur = NoProc
    /\ \E ch \in Channels, i \in DOMAIN RegInputs :
          loc' = [loc EXCEPT ![p] = [ch |-> ch, todo |-> _subscriptions[ch], seen |-> {},
                                     conn |-> "none", msg |-> RegInputs[i],
                                     failed |-> FALSE]]
    /\ pc' = [pc EXCEPT ![p] = "loop"]
    /\ cur' = p
    /\ UNCHANGED <<wire, last>> /\ UNCHANGED registryVars /\ UNCHANGED batcherVars /\ UNCHANGED <<cacheVars, repoVars, repoVars>>

\* a mutant of PLoop: the loop reads the live membership of the channel
PLoopLiveMembership(p) ==
    /\ pc[p] = "loop" /\ cur = p
    /\ LET live == _subscriptions[loc[p].ch] \ loc[p].seen
       IN  IF live = {}
           THEN /\ pc' = [pc EXCEPT ![p] = "idle"]
                /\ loc' = [loc EXCEPT ![p] = InitLoc[p]]
                /\ cur' = NoProc
                /\ UNCHANGED <<wire, block>>
           ELSE \E c \in live :
                /\ loc' = [loc EXCEPT ![p].todo = live \ {c}, ![p].seen = @ \cup {c},
                                      ![p].conn = IF c \in _connections THEN c ELSE "none"]
                /\ IF c \notin _connections
                   THEN UNCHANGED <<pc, cur, wire, block>>
                   ELSE /\ block' = Acquired(block, p)
                        /\ cur' = After(block, p)
                        /\ pc' = [pc EXCEPT ![p] = "add_cs"]
                        /\ UNCHANGED wire
    /\ UNCHANGED <<cacheVars, repoVars, enabled, _pending, _flush_tasks, tasks, last>>
    /\ UNCHANGED registryVars

\* lines 311-312 and send_to_connection up to add_message's lock: 282-296, 86-90
PLoop(p) ==
    /\ pc[p] = "loop" /\ cur = p
    /\ IF loc[p].todo = {}
       THEN /\ pc' = [pc EXCEPT ![p] = "idle"]
            /\ loc' = [loc EXCEPT ![p] = InitLoc[p]]
            /\ cur' = NoProc
            /\ UNCHANGED <<wire, block>>
       ELSE \E c \in loc[p].todo :
            /\ loc' = [loc EXCEPT ![p].todo = @ \ {c}, ![p].seen = @ \cup {c},
                                  ![p].conn = IF c \in _connections THEN c ELSE "none"]
            /\ IF c \notin _connections
               THEN UNCHANGED <<pc, cur, wire, block>>
               ELSE IF ~enabled
               THEN /\ wire' = Sent(c, p, Frame(loc[p].msg.type, loc[p].msg.data))
                    /\ pc' = [pc EXCEPT ![p] = "send_io"]
                    /\ cur' = NoProc
                    /\ UNCHANGED block
               ELSE /\ block' = Acquired(block, p)
                    /\ cur' = After(block, p)
                    /\ pc' = [pc EXCEPT ![p] = "add_cs"]
                    /\ UNCHANGED wire
    /\ UNCHANGED <<cacheVars, repoVars, enabled, _pending, _flush_tasks, tasks, last>>
    /\ UNCHANGED registryVars

\* a mutant of PAddCS: the caller is suspended between add_message and
\* _send_batch, and hands the batch over when it resumes
PAddCSYields(p) ==
    /\ pc[p] = "add_cs" /\ Go(p, block.holder = p)
    /\ LET c == loc[p].conn
           m == loc[p].msg
           r == AddMessageReturn(c, m.type, m.data, m.priority)
       IN  /\ AddMessageLocked(c, m.type, m.data, m.priority)
           /\ block' = Released(block)
           /\ UNCHANGED wire
           /\ IF Truthy(r)
              THEN /\ pc' = [pc EXCEPT ![p] = "send_io"]
                   /\ cur' = NoProc
                   /\ UNCHANGED loc
              ELSE /\ pc' = [pc EXCEPT ![p] = "loop"]
                   /\ cur' = p
                   /\ loc' = [loc EXCEPT ![p].conn = "none"]
    /\ UNCHANGED <<cacheVars, repoVars, enabled, last>> /\ UNCHANGED registryVars

\* add_message under the batcher lock (91-113), then lines 298-299
PAddCS(p) ==
    /\ pc[p] = "add_cs" /\ Go(p, block.holder = p)
    /\ LET c == loc[p].conn
           m == loc[p].msg
           r == AddMessageReturn(c, m.type, m.data, m.priority)
       IN  /\ AddMessageLocked(c, m.type, m.data, m.priority)
           /\ block' = Released(block)
           /\ IF Truthy(r)
              THEN /\ wire' = Sent(c, p, Head(r.batch))
                   /\ pc' = [pc EXCEPT ![p] = "send_io"]
                   /\ cur' = NoProc
                   /\ UNCHANGED loc
              ELSE /\ pc' = [pc EXCEPT ![p] = "loop"]
                   /\ cur' = p
                   /\ loc' = [loc EXCEPT ![p].conn = "none"]
                   /\ UNCHANGED wire
    /\ UNCHANGED <<cacheVars, repoVars, enabled, last>> /\ UNCHANGED registryVars

\* a mutant of SendBatchOutcome: the exception of send_json leaves _send_batch
\* and ends the broadcast
SendBatchRaises(fails) == IF fails THEN "idle" ELSE "loop"

\* _send_batch, lines 347-351: try / except Exception; an error is logged and
\* the call returns to the loop of broadcast_to_channel either way
SendBatchOutcome(fails) == "loop"

\* _send_batch, lines 345-351: send_json returns, or raises and is logged
PSendIO(p) ==
    /\ pc[p] = "send_io" /\ cur = NoProc
    /\ \E fails \in BOOLEAN :
          /\ loc' = [loc EXCEPT ![p].failed = @ \/ fails, ![p].conn = "none"]
          /\ pc' = [pc EXCEPT ![p] = SendBatchOutcome(fails)]
    /\ wire' = Returned(loc[p].conn, p)
    /\ cur' = p
    /\ UNCHANGED <<last>> /\ UNCHANGED registryVars /\ UNCHANGED batcherVars /\ UNCHANGED <<cacheVars, repoVars, repoVars>>

(* ---- a timer task t: _delayed_flush, lines 115-127 ---- *)

\* line 121-123: the delay elapses and the task asks for the batcher lock
TWake(t) ==
    /\ tasks[t].st = "sleep" /\ cur = NoProc
    /\ tasks' = [tasks EXCEPT ![t].st = "wait"]
    /\ block' = Acquired(block, t)
    /\ cur' = After(block, t)
    /\ UNCHANGED <<cacheVars, repoVars, enabled, _pending, _flush_tasks, pc, loc, wire, last>>
    /\ UNCHANGED registryVars

\* lines 124-127 under the batcher lock: flush, then flush_callback's send_json
TFlushCS(t) ==
    /\ tasks[t].st = "wait" /\ Go(t, block.holder = t)
    /\ LET c == tasks[t].conn
       IN  IF _pending[c] # <<>>
           THEN /\ _pending' = [_pending EXCEPT ![c] = <<>>]
                /\ wire' = Sent(c, t, Head(FlushBatch(_pending[c])))
                /\ tasks' = [tasks EXCEPT ![t].st = "write"]
                /\ UNCHANGED block
           ELSE /\ tasks' = Finished(tasks, t)
                /\ block' = Released(block)
                /\ UNCHANGED <<_pending, wire>>
    /\ cur' = NoProc
    /\ UNCHANGED <<cacheVars, repoVars, enabled, _flush_tasks, pc, loc, last>>
    /\ UNCHANGED registryVars

\* a mutant of TWriteIO: a failed write of a timer calls disconnect, as
\* send_immediate does, while the batcher lock is held
TWriteIODisconnects(t) ==
    /\ tasks[t].st = "write" /\ cur = NoProc
    /\ ~(Holds(rlock, t) \/ Waits(rlock, t))
    /\ rlock' = Acquired(rlock, t)
    /\ UNCHANGED <<cacheVars, repoVars, batcherVars, _connections, _subscriptions,
                   _connection_channels, pc, loc, wire, cur, last>>

\* send_json returns or raises (logged in _send_batch); the lock is released
TWriteIO(t) ==
    /\ tasks[t].st = "write" /\ cur = NoProc
    /\ tasks' = Finished(tasks, t)
    /\ block' = Released(block)
    /\ wire' = Returned(tasks[t].conn, t)
    /\ UNCHANGED <<cacheVars, repoVars, enabled, _pending, _flush_tasks, pc, loc, cur, last>>
    /\ UNCHANGED registryVars

(* ---- a caller of flush_connection: lines 353-362 ---- *)

FCall(c) ==
    /\ pc[Flusher] = "idle" /\ cur = NoProc
    /\ IF c \notin _connections
       THEN UNCHANGED <<pc, loc, block, cur>>
       ELSE /\ loc' = [loc EXCEPT ![Flusher].conn = c]
            /\ block' = Acquired(block, Flusher)
            /\ cur' = After(block, Flusher)
            /\ pc' = [pc EXCEPT ![Flusher] = "flush_cs"]
    /\ UNCHANGED <<cacheVars, repoVars, enabled, _pending, _flush_tasks, tasks, wire, last>>
    /\ UNCHANGED registryVars

\* a mutant of FFlushCS: flush_all drains without cancelling the timer
FFlushCSKeepsTimer ==
    /\ pc[Flusher] = "flush_cs" /\ Go(Flusher, block.holder = Flusher)
    /\ LET c == loc[Flusher].conn
           batch == FlushBatch(_pending[c])
       IN  /\ UNCHANGED <<tasks, _flush_tasks>>
           /\ block' = Released(block)
           /\ _pending' = [_pending EXCEPT ![c] = <<>>]
           /\ IF batch # <<>>
              THEN /\ wire' = Sent(c, Flusher, Head(batch))
                   /\ pc' = [pc EXCEPT ![Flusher] = "send_io"]
                   /\ UNCHANGED loc
              ELSE /\ pc' = [pc EXCEPT ![Flusher] = "idle"]
                   /\ loc' = [loc EXCEPT ![Flusher].conn = "none"]
                   /\ UNCHANGED wire
    /\ cur' = NoProc
    /\ UNCHANGED <<cacheVars, repoVars, enabled, last>> /\ UNCHANGED registryVars

\* flush_all under the batcher lock (199-204), then lines 361-362
FFlushCS ==
    /\ pc[Flusher] = "flush_cs" /\ Go(Flusher, block.holder = Flusher)
    /\ LET c == loc[Flusher].conn
           batch == FlushBatch(_pending[c])
       IN  /\ tasks' = CancelTimer(c).tasks
           /\ _flush_tasks' = CancelTimer(c)._flush_tasks
           /\ block' = Released(CancelTimer(c).block)
           /\ _pending' = [_pending EXCEPT ![c] = <<>>]
           /\ IF batch # <<>>
              THEN /\ wire' = Sent(c, Flusher, Head(batch))
                   /\ pc' = [pc EXCEPT ![Flusher] = "send_io"]
                   /\ UNCHANGED loc
              ELSE /\ pc' = [pc EXCEPT ![Flusher] = "idle"]
                   /\ loc' = [loc EXCEPT ![Flusher].conn = "none"]
                   /\ UNCHANGED wire
    /\ cur' = NoProc
    /\ UNCHANGED <<cacheVars, repoVars, enabled, last>> /\ UNCHANGED registryVars

FSendIO ==
    /\ pc[Flusher] = "send_io" /\ cur = NoProc
    /\ pc' = [pc EXCEPT ![Flusher] = "idle"]
    /\ wire' = Returned(loc[Flusher].conn, Flusher)
    /\ loc' = [loc EXCEPT ![Flusher].conn = "none"]
    /\ UNCHANGED <<cur, last>>
    /\ UNCHANGED registryVars /\ UNCHANGED batcherVars /\ UNCHANGED <<cacheVars, repoVars, repoVars>>

\* get_websocket_manager, lines 381-385: enabled=True
InitRegistry == InitCommon /\ enabled = TRUE

\* the stream endpoint, the producers and the timers
NextStream ==
    \/ \E c \in Conns : HAccept(c)
    \/ \E c \in Conns : HConnCS(c)
    \/ \E c \in Conns : HSubCS(c)
    \/ \E c \in Conns : HList(c)
    \/ \E c \in Conns : HImmIO(c)
    \/ \E c \in Conns : HClose(c)
    \/ \E c \in Conns : HDiscCS(c)
    \/ \E c \in Conns : HClearCS(c)
    \/ \E p \in Producers : PBroadcast(p)
    \/ \E p \in Producers : PLoop(p)
    \/ \E p \in Producers : PAddCS(p)
    \/ \E p \in Producers : PSendIO(p)
    \/ \E t \in TaskIds : TWake(t)
    \/ \E t \in TaskIds : TFlushCS(t)
    \/ \E t \in TaskIds : TWriteIO(t)

\* with clients that send frames
NextRegistry ==
    \/ NextStream
    \/ \E c \in Conns : HRecv(c)
    \/ \E c \in Conns : HUnsubCS(c)

\* with clients that only listen, and a caller of flush_connection
NextForced ==
    \/ NextStream
    \/ \E c \in Conns : FCall(c)
    \/ FFlushCS
    \/ FSendIO

Spec == InitRegistry /\ [][NextRegistry]_vars

SpecForced == InitRegistry /\ [][NextForced]_vars

----------------------------------------------------------------------------
(* What a flush drained and what it returned, read off the last call       *)

\* the last call flushed: it returned a list built by _flush
Flushed == /\ enabled
           /\ last.op \in {"add_message", "flush_all", "timer"}
           /\ ~last.ret.none

\* the messages the last call drained, in the order they were enqueued
Drained == IF last.op = "add_message" THEN Append(last.before, last.msg)
           ELSE last.before

\* the patches a message or a batch entry carries
PatchesOf(m) == IF m.type = PATCH THEN Get(m.data, "patches", <<m.data>>) ELSE <<>>

IsPathOp(patch) == Get(patch, "op", "none") \in {"replace", "add", "remove"}

RECURSIVE Concat(_)
Concat(ss) == IF ss = <<>> THEN <<>> ELSE Head(ss) \o Concat(Tail(ss))

\* the entries of a returned batch: the frame itself, or those in its envelope
Entries(batch) ==
    IF batch = <<>> THEN <<>>
    ELSE IF batch[1].type = BATCH_PATCH THEN batch[1].data.patches
    ELSE batch

\* the content of a batch, item by item in order: a patch of the merged
\* PATCH entry ("p"), or an entry passed through ("o")
ItemsOfEntry(e) ==
    IF e.type = PATCH /\ "patches" \in DOMAIN e.data
    THEN [i \in 1..Len(e.data.patches) |-> [k |-> "p", v |-> e.data.patches[i]]]
    ELSE << [k |-> "o", v |-> e] >>

OutItems(batch) ==
    Concat([i \in 1..Len(Entries(batch)) |-> ItemsOfEntry(Entries(batch)[i])])

\* all patches of the drained messages, in order
WindowPatches(msgs) == Concat([i \in 1..Len(msgs) |-> PatchesOf(msgs[i])])

\* the patches for path p among ps
ForPath(ps, p) == SelectSeq(ps, LAMBDA x : Get(x, "path", "") = p)

AllPaths == {"/a", "/b"}

(* The content FIFO order prescribes for a drained list: every message in  *)
(* the order enqueued, a patch superseded by a later patch for its path    *)
(* left out (it is collapsed into the later one).                          *)
RECURSIVE FifoItemsOfPatches(_, _, _)
FifoItemsOfPatches(type, ps, later) ==
    IF ps = <<>> THEN <<>>
    ELSE LET x == Head(ps)
             superseded ==
                 \E y \in {(Tail(ps) \o later)[i] : i \in 1..Len(Tail(ps) \o later)} :
                     IsPathOp(y) /\ Get(y, "path", "") = Get(x, "path", "")
             item == IF ~IsPathOp(x) THEN << [k |-> "o", v |-> [type |-> type, data |-> x]] >>
                     ELSE IF superseded THEN <<>>
                     ELSE << [k |-> "p", v |-> x] >>
         IN  item \o FifoItemsOfPatches(type, Tail(ps), later)

RECURSIVE FifoItems(_)
FifoItems(msgs) ==
    IF msgs = <<>> THEN <<>>
    ELSE LET m == Head(msgs)
         IN  (IF m.type = PATCH
              THEN FifoItemsOfPatches(m.type, PatchesOf(m), WindowPatches(Tail(msgs)))
              ELSE << [k |-> "o", v |-> [type |-> m.type, data |-> m.data]] >>)
             \o FifoItems(Tail(msgs))

Count(seq, x) == Cardinality({i \in 1..Len(seq) : seq[i] = x})
SameItems(s, t) ==
    /\ Len(s) = Len(t)
    /\ \A i \in 1..Len(s) : Count(s, s[i]) = Count(t, s[i])

----------------------------------------------------------------------------
(* Claims on the batcher alone: SpecBatcher                                *)

\* C1  Coalescing: when the messages drained by a flush carry, for some path,
\* only replace patches (one or more), the flushed batch holds exactly one
\* patch for that path, and its value is that of the last one enqueued.
C1_Coalescing ==
    Flushed =>
        \A p \in AllPaths :
            LET w == ForPath(WindowPatches(Drained), p)
                b == ForPath(WindowPatches(Entries(last.ret.batch)), p)
            IN  (w # <<>> /\ \A i \in 1..Len(w) : Get(w[i], "op", "none") = "replace")
                => /\ Len(b) = 1
                   /\ b[1].op = "replace"
                   /\ b[1].value = w[Len(w)].value

\* a flush that drained two replace patches for /a with different values
C1_Witness ==
    /\ Flushed
    /\ LET w == ForPath(WindowPatches(Drained), "/a")
       IN  /\ Len(w) >= 2
           /\ \A i \in 1..Len(w) : Get(w[i], "op", "none") = "replace"
           /\ w[1].value # w[Len(w)].value

\* C3  Priority trigger: with batching enabled, an add_message call with
\* priority >= 1 returns a non-empty batch; the batch holds every message that
\* was pending before the call and the new one (a patch only as superseded by a
\* later patch for its path); after the call the queue is empty.
C3_PriorityTrigger ==
    (enabled /\ last.op = "add_message" /\ last.msg.priority >= 1) =>
        /\ ~last.ret.none
        /\ last.ret.batch # <<>>
        /\ SameItems(OutItems(last.ret.batch), FifoItems(Drained))
        /\ _pending[last.conn] = <<>>

\* a priority-1 call made while two messages were pending
C3_Witness ==
    /\ enabled /\ last.op = "add_message" /\ last.msg.priority >= 1
    /\ Len(last.before) = 2
    /\ Len(OutItems(last.ret.batch)) >= 2

\* C4  Size trigger: with batching enabled, a priority-0 add_message call
\* returns no batch while the queue stays shorter than max_batch_size, and a
\* non-empty batch when it brings the queue to max_batch_size; no queue is
\* ever longer than max_batch_size.
C4_SizeTrigger ==
    /\ (enabled /\ last.op = "add_message" /\ last.msg.priority = 0) =>
           /\ Len(last.before) + 1 < MaxBatchSize => last.ret.none
           /\ Len(last.before) + 1 = MaxBatchSize =>
                  ~last.ret.none /\ last.ret.batch # <<>>
    /\ \A c \in Conns : Len(_pending[c]) <= MaxBatchSize

\* the priority-0 call that brought the queue to max_batch_size
C4_Witness ==
    /\ enabled /\ last.op = "add_message" /\ last.msg.priority = 0
    /\ Len(last.before) = MaxBatchSize - 1
    /\ \A i \in 1..Len(last.before) : last.before[i].priority = 0
    /\ ~last.ret.none

\* C7  Disabled batching: with enabled = false, add_message returns the one
\* message {type, data} of its arguments, and no queue entry and no timer
\* ever exists.
C7_Disabled ==
    ~enabled =>
        /\ last.op = "add_message" =>
               last.ret = Ret(<< [type |-> last.msg.type, data |-> last.msg.data] >>)
        /\ \A c \in Conns : _pending[c] = <<>> /\ _flush_tasks[c] = NoTask
        /\ \A t \in TaskIds : tasks[t] = FreeTask

\* a priority-0 call with batching disabled
C7_Witness ==
    ~enabled /\ last.op = "add_message" /\ last.msg.priority = 0 /\ last.conn = "c1"

\* C9  Position of a collapsed entry: the patches of a flushed batch follow
\* the order in which their paths were last written in the flush window.
C9_LastPosition ==
    Flushed =>
        SelectSeq(OutItems(last.ret.batch), LAMBDA x : x.k = "p")
            = SelectSeq(FifoItems(Drained), LAMBDA x : x.k = "p")

\* C10  FIFO across kinds: the content of a flushed batch is that of the
\* drained messages in the order enqueued, patch-shaped or not, but for the
\* patches collapsed into a later one.
C10_FifoAcrossKinds ==
    Flushed => OutItems(last.ret.batch) = FifoItems(Drained)

----------------------------------------------------------------------------
(* Claims on the manager with its handlers, producer and timers            *)

\* the handler of c has not yet handed the snapshot frame to the transport
BeforeSnapshot(c) ==
    \/ pc[c] \in {"accept", "conn_cs", "list"}
    \/ pc[c] = "sub_cs" /\ loc[c].back = "list"

\* C2  Snapshot first: no patch or batch_patch frame is handed to the
\* transport of a stream before the handler has sent the snapshot frame.
C2_SnapshotFirst ==
    \A c \in Conns :
        BeforeSnapshot(c) =>
            \A i \in 1..Len(wire[c]) : wire[c][i].frame.type \notin {PATCH, BATCH_PATCH}

\* C5  Broadcast isolation: a broadcast returns only when send has been
\* invoked for every member of its membership snapshot, whatever the outcome
\* of the transport writes it made on the way.
C5_BroadcastIsolation ==
    [][\A p \in Producers :
           (pc[p] # "idle" /\ pc'[p] = "idle") => loc[p].todo = {}]_vars

\* a broadcast that had a transport write fail for one member and is now
\* writing to another member
C5_Witness ==
    \E p \in Producers :
        /\ loc[p].failed
        /\ pc[p] = "send_io"
        /\ Cardinality(loc[p].seen) = 2

\* disconnect(c) has completed: c is out of the identity table and its handler
\* is past disconnect
DisconnectDone(c) ==
    /\ c \notin _connections
    /\ pc[c] \in {"end", "recv", "imm_io", "sub_cs", "unsub_cs"}

\* C6  Disconnect discards: once disconnect(c) has completed, the queue of c
\* is empty, a forced flush of c returns the empty result, no timer of c is
\* outstanding, and no caller is about to enqueue or flush for c.
C6_DisconnectDiscards ==
    \A c \in Conns :
        DisconnectDone(c) =>
            /\ _pending[c] = <<>>
            /\ FlushBatch(_pending[c]) = <<>>
            /\ _flush_tasks[c] = NoTask
            /\ OutstandingFor(c) = {}
            /\ \A p \in Producers \cup {Flusher} :
                   ~(pc[p] \in {"add_cs", "flush_cs"} /\ loc[p].conn = c)

\* c1 has been disconnected while a broadcast whose membership snapshot still
\* holds c1 is under way and the other subscriber has a timer outstanding
C6_Witness ==
    /\ DisconnectDone("c1") /\ pc["c1"] = "end"
    /\ \E p \in Producers : pc[p] # "idle" /\ "c1" \in loc[p].todo
    /\ OutstandingFor("c2") # {}

\* C8  Timer uniqueness: at most one timer task is outstanding per subscriber.
C8_TimerUniqueness ==
    \A c \in Conns : Cardinality(OutstandingFor(c)) <= 1

\* a second message has been queued for a subscriber whose timer is outstanding
C8_Witness ==
    \E c \in Conns :
        /\ Cardinality(OutstandingFor(c)) = 1
        /\ Len(_pending[c]) = 2

----------------------------------------------------------------------------
(* Further claims on the batcher alone: SpecBatcher                        *)

\* the add, replace and remove patches for path p among ps
PathOpsFor(ps, p) == SelectSeq(ps, LAMBDA x : IsPathOp(x) /\ Get(x, "path", "") = p)

\* C11  Last-writer-wins per path: in every flushed batch each path occurs in
\* at most one add/replace/remove patch, and that patch is the last one
\* enqueued for the path among the drained messages; a remove enqueued after
\* an add or replace of the path leaves only the removal.
C11_LastWriterWins ==
    Flushed =>
        \A p \in AllPaths :
            LET w == PathOpsFor(WindowPatches(Drained), p)
                b == PathOpsFor(WindowPatches(Entries(last.ret.batch)), p)
            IN  /\ Len(b) <= 1
                /\ w # <<>> => (Len(b) = 1 /\ b[1] = w[Len(w)])

\* a flush that drained an add or replace of /a followed by a remove of /a
C11_Witness ==
    /\ Flushed
    /\ LET w == PathOpsFor(WindowPatches(Drained), "/a")
       IN  /\ Len(w) >= 2
           /\ w[1].op \in {"add", "replace"}
           /\ w[Len(w)].op = "remove"
    /\ PathOpsFor(WindowPatches(Entries(last.ret.batch)), "/a") = << Remove("/a") >>

\* the case of C12: priority-0 replace patches for one path are pending, and
\* a priority-1 PATCH message carrying one remove for another path is added
C12_Case ==
    /\ enabled /\ last.op = "add_message"
    /\ last.msg.priority >= 1 /\ last.msg.type = PATCH
    /\ "patches" \in DOMAIN last.msg.data
    /\ Len(last.msg.data.patches) = 1
    /\ last.msg.data.patches[1].op = "remove"
    /\ last.before # <<>>
    /\ \A i \in 1..Len(last.before) :
           LET m == last.before[i]
           IN  /\ m.priority = 0 /\ m.type = PATCH
               /\ "patches" \in DOMAIN m.data
               /\ Len(m.data.patches) = 1
               /\ m.data.patches[1].op = "replace"
               /\ m.data.patches[1].path # last.msg.data.patches[1].path
               /\ m.data.patches[1].path = last.before[1].data.patches[1].path

\* the content C12 expects: the collapsed replace, then the removal
C12_Expected ==
    << last.before[Len(last.before)].data.patches[1], last.msg.data.patches[1] >>

\* C12 (as stated)  Mixed-path flush is a batch_patch: in the case of C12 the
\* call returns exactly one frame of kind batch_patch that contains the
\* collapsed replace followed by the removal.
C12_MixedPathBatchPatch ==
    C12_Case =>
        /\ Len(last.ret.batch) = 1
        /\ last.ret.batch[1].type = BATCH_PATCH
        /\ WindowPatches(Entries(last.ret.batch)) = C12_Expected

\* C12 (amended)  Mixed-path flush is one patch frame: in the case of C12 the
\* call returns exactly one frame, of kind patch, whose patches are the
\* collapsed replace followed by the removal.
C12_MixedPathPatchFrame ==
    C12_Case =>
        /\ Len(last.ret.batch) = 1
        /\ last.ret.batch[1].type = PATCH
        /\ last.ret.batch[1].data = [patches |-> C12_Expected]

\* two replaces of /b were pending when the removal of /a was added
C12_Witness ==
    /\ C12_Case
    /\ Len(last.before) = 2
    /\ last.msg.data.patches[1].path = "/a"

----------------------------------------------------------------------------
(* Further claims on the manager: failures and deregistration              *)

\* c is in no index of the registry
Unregistered(c) ==
    /\ c \notin _connections
    /\ _connection_channels[c] = {}
    /\ \A ch \in Channels : c \notin _subscriptions[ch]

\* c has no queue and no timer in the batcher
NoBatcherState(c) ==
    /\ _pending[c] = <<>>
    /\ _flush_tasks[c] = NoTask
    /\ OutstandingFor(c) = {}

\* C13  Batched send failure evicts: when the transport write of a batched
\* flush made by send_to_connection fails, the subscriber is, once
\* _send_batch has returned, absent from the identity table and from every
\* channel's membership set.
C13_BatchedFailureEvicts ==
    [][\A p \in Producers :
           (pc[p] = "send_io" /\ ~loc[p].failed /\ loc'[p].failed) =>
               /\ loc[p].conn \notin _connections'
               /\ \A ch \in Channels : loc[p].conn \notin _subscriptions'[ch]]_vars

\* C14  send_immediate failure is an implicit disconnect: when send_immediate
\* returns after a failed transport write, the subscriber is in no index of
\* the registry, its queue and timer are cleared and no frame of the call is
\* on the transport; send_immediate for an unknown id hands nothing to the
\* transport.
C14_ImmediateFailureDisconnects ==
    [][\A c \in Conns :
           /\ (pc[c] = "clear_cs" /\ loc[c].back = "recv" /\ pc'[c] = "recv") =>
                  /\ Unregistered(c)'
                  /\ NoBatcherState(c)'
                  /\ \A i \in 1..Len(wire'[c]) : wire'[c][i].by # c
           /\ (pc[c] = "recv" /\ c \notin _connections) => pc'[c] # "imm_io"]_vars

\* send_immediate has returned to the receive loop of c1 after a failed write,
\* while the other subscriber has a queue and a timer
C14_Witness ==
    /\ pc["c1"] = "recv" /\ "c1" \notin _connections
    /\ _pending["c2"] # <<>> /\ OutstandingFor("c2") # {}

\* C15  deregister is complete and idempotent: when disconnect(c) returns, c
\* is in no index of the registry and has no queue and no timer; a
\* disconnect(c) made while c is already so changes none of the indexes, the
\* queues and the timers.
C15_DeregisterComplete ==
    [][\A c \in Conns :
           /\ (pc[c] = "clear_cs" /\ pc'[c] # "clear_cs") =>
                  Unregistered(c)' /\ NoBatcherState(c)'
           /\ (pc[c] \in {"disc_cs", "clear_cs"} /\ pc'[c] # pc[c]
                   /\ Unregistered(c) /\ NoBatcherState(c)) =>
                  UNCHANGED <<_connections, _subscriptions, _connection_channels,
                              _pending, _flush_tasks, tasks>>]_vars

\* disconnect(c1) is called a second time: c1 is already in no index
C15_Witness ==
    /\ pc["c1"] = "disc_cs" /\ loc["c1"].back = "end"
    /\ Unregistered("c1") /\ NoBatcherState("c1")
    /\ "c2" \in _connections /\ _pending["c2"] # <<>>

\* C16  subscribe on an unknown subscriber is a no-op: every member of every
\* channel is a registered subscriber, and so is every id with a channel in
\* the per-subscriber index.
C16_MembersRegistered ==
    /\ \A ch \in Channels : _subscriptions[ch] \subseteq _connections
    /\ \A c \in Conns : _connection_channels[c] # {} => c \in _connections

\* C17  register failure mutates nothing: when accept raises, connect returns
\* with the identity table, both channel indexes and the batcher state as
\* they were; when connect succeeds, the subscriber is in the identity table
\* with an empty channel set.
C17_RegisterFailure ==
    [][\A c \in Conns :
           /\ (pc[c] = "accept" /\ pc'[c] = "end") =>
                  UNCHANGED <<_connections, _subscriptions, _connection_channels,
                              enabled, _pending, _flush_tasks, tasks, block>>
           /\ (pc[c] = "conn_cs" /\ pc'[c] # "conn_cs") =>
                  c \in _connections' /\ _connection_channels'[c] = {}]_vars

\* c1 has just been registered, with no channel yet, while c2 is subscribed
\* and has a queue
C17_Witness ==
    /\ pc["c1"] = "sub_cs" /\ loc["c1"].back = "list"
    /\ "c1" \in _connections /\ _connection_channels["c1"] = {}
    /\ _connection_channels["c2"] # {} /\ _pending["c2"] # <<>>

----------------------------------------------------------------------------
(* Further claims on the manager: the batcher lock and the drain           *)

\* the connection that the holder h of the batcher lock works for
OpConn(h) ==
    IF h \in Conns THEN h
    ELSE IF h \in TaskIds THEN tasks[h].conn
    ELSE loc[h].conn

\* C18  Independent progress across subscribers: an add_message for a
\* subscriber never waits for the batcher lock while the lock is held by an
\* operation on another subscriber.
C18_IndependentProgress ==
    \A p \in Producers :
        (pc[p] = "add_cs" /\ block.holder # p) =>
            OpConn(block.holder) = loc[p].conn

\* the message that producer p is adding
Adding(p) == PendingMessage(loc[p].msg.type, loc[p].msg.data, loc[p].msg.priority)

\* in this step one frame is handed to the transport of c, and it is the
\* frame that _flush makes of the messages drained
HandsOver(c, drained) ==
    /\ Len(wire'[c]) = Len(wire[c]) + 1
    /\ SubSeq(wire'[c], 1, Len(wire[c])) = wire[c]
    /\ wire'[c][Len(wire'[c])].frame = Head(FlushBatch(drained))

\* C19  No loss or duplication on drain: in every step the queue of a
\* subscriber is left alone, or gets the added message at its tail with
\* nothing sent, or is emptied whole: by clear, or by a flush that hands
\* over one frame made of the whole queue (with the message being added).
C19_NoLossNoDup ==
    [][\A c \in Conns :
           \/ _pending'[c] = _pending[c]
           \/ \E p \in Producers :
                 /\ pc[p] = "add_cs" /\ block.holder = p /\ loc[p].conn = c
                 /\ \/ /\ _pending'[c] = Append(_pending[c], Adding(p))
                       /\ wire'[c] = wire[c]
                    \/ /\ _pending'[c] = <<>>
                       /\ HandsOver(c, Append(_pending[c], Adding(p)))
           \/ /\ pc[c] = "clear_cs" /\ block.holder = c
              /\ _pending'[c] = <<>> /\ wire'[c] = wire[c]
           \/ /\ block.holder \in TaskIds \cup {Flusher}
              /\ OpConn(block.holder) = c
              /\ _pending[c] # <<>> /\ _pending'[c] = <<>>
              /\ HandsOver(c, _pending[c])]_vars

\* a broadcast is adding a message for c1 while a forced flush of c1 waits
\* for the lock and the queue of c1 is not empty
C19_Witness ==
    /\ \E p \in Producers : pc[p] = "add_cs" /\ block.holder = p /\ loc[p].conn = "c1"
    /\ pc[Flusher] = "flush_cs" /\ loc[Flusher].conn = "c1"
    /\ _pending["c1"] # <<>>

----------------------------------------------------------------------------
(* Claims on the fan-out, the helpers and the teardown                     *)

\* the membership snapshot of the broadcast that p is making: the members
\* still to be sent to and those already handled
Snapshot(p) == loc[p].todo \cup loc[p].seen

\* C21  Broadcast uses a membership snapshot: the recipients of a broadcast
\* are the members of the channel when it starts; while it runs the snapshot
\* does not change whatever is subscribed or unsubscribed meanwhile, and
\* send_to_connection is invoked for one member of it at a time, for none
\* twice.
C21_MembershipSnapshot ==
    [][\A p \in Producers :
           /\ (pc[p] = "idle" /\ pc'[p] # "idle") =>
                  /\ loc'[p].todo = _subscriptions[loc'[p].ch]
                  /\ loc'[p].seen = {}
           /\ (pc[p] # "idle" /\ pc'[p] # "idle") =>
                  /\ Snapshot(p)' = Snapshot(p)
                  /\ loc'[p].todo \cap loc'[p].seen = {}
                  /\ loc[p].seen \subseteq loc'[p].seen
                  /\ Cardinality(loc'[p].seen) <= Cardinality(loc[p].seen) + 1
                  /\ (loc'[p].conn # "none" /\ loc[p].conn = "none") =>
                         loc'[p].conn \in loc[p].todo]_vars

\* during a fan-out suspended in a transport write, one connection that is
\* not in the snapshot has subscribed to the channel, or one that is still
\* to be sent to has unsubscribed and stays connected
C21_Witness ==
    \E p \in Producers :
        /\ pc[p] = "send_io"
        /\ \E c \in Conns :
               /\ c \in _connections
               /\ \/ c \in _subscriptions[loc[p].ch] /\ c \notin Snapshot(p)
                  \/ c \notin _subscriptions[loc[p].ch] /\ c \in loc[p].todo

\* C22  Structural changes are prompt, field churn is coalesced: a creation
\* or deletion is an add (of the full record) or a remove at /tasks/{id}
\* with priority >= 1, and add_message hands a frame holding it to the
\* member's transport in the same call; a field update is a replace at
\* /tasks/{id}/{field} with priority 0, and below the size trigger it is
\* queued and nothing is sent.
C22_PromptStructuralChanges ==
    [][\A p \in Producers :
           (pc[p] = "add_cs" /\ pc'[p] # "add_cs") =>
               LET c == loc[p].conn
                   m == loc[p].msg
                   patch == m.data.patches[1]
               IN  /\ m.type = PATCH /\ Len(m.data.patches) = 1
                   /\ m.priority >= 1 =>
                          /\ patch.op \in {"add", "remove"}
                          /\ patch.path = "/tasks/7"
                          /\ patch.op = "add" => patch.value = Task7
                          /\ pc'[p] = "send_io"
                          /\ HandsOver(c, Append(_pending[c], Adding(p)))
                          /\ LET ps == WindowPatches(
                                           Entries(<< wire'[c][Len(wire'[c])].frame >>))
                             IN  ps[Len(ps)] = patch
                   /\ m.priority = 0 =>
                          /\ patch.op = "replace"
                          /\ patch.path = "/tasks/7/status"
                          /\ Len(_pending[c]) + 1 < MaxBatchSize =>
                                 /\ pc'[p] = "loop"
                                 /\ wire' = wire
                                 /\ _pending'[c] = Append(_pending[c], Adding(p))]_vars

\* a creation or deletion is being written to a member together with a field
\* update that was waiting in its queue
C22_Witness ==
    \E p \in Producers :
        /\ pc[p] = "send_io" /\ loc[p].msg.priority >= 1
        /\ \E i \in 1..Len(wire[loc[p].conn]) :
               /\ wire[loc[p].conn][i].by = p
               /\ Len(wire[loc[p].conn][i].frame.data.patches) = 2

\* C23  Atomic teardown on disconnect: in no state that another task can
\* observe (no task is running) is a subscriber out of the identity table
\* while it has a queue, a timer entry or an outstanding timer.
C23_AtomicTeardown ==
    \A c \in Conns :
        (cur = NoProc /\ c \notin _connections) => NoBatcherState(c)


(* ---- delayed flushes under fair scheduling ---- *)

\* the connections that stream in the fair specification
LiveConns == {"c1"}

\* one stream endpoint, the producers and the timers
NextLive ==
    \/ \E c \in LiveConns : HAccept(c)
    \/ \E c \in LiveConns : HConnCS(c)
    \/ \E c \in LiveConns : HSubCS(c)
    \/ \E c \in LiveConns : HList(c)
    \/ \E c \in LiveConns : HImmIO(c)
    \/ \E c \in LiveConns : HClose(c)
    \/ \E c \in LiveConns : HDiscCS(c)
    \/ \E c \in LiveConns : HClearCS(c)
    \/ \E p \in Producers : PBroadcast(p)
    \/ \E p \in Producers : PLoop(p)
    \/ \E p \in Producers : PAddCS(p)
    \/ \E p \in Producers : PSendIO(p)
    \/ \E t \in TaskIds : TWake(t)
    \/ \E t \in TaskIds : TFlushCS(t)
    \/ \E t \in TaskIds : TWriteIO(t)

\* one step of the timer task t: _delayed_flush, lines 121, 123-125, 126-127
TimerStep(t) == TWake(t) \/ TFlushCS(t) \/ TWriteIO(t)

\* a task that asked for the batcher lock in add_message (line 90) or in
\* clear (line 208) resumes with it
LockStep == (\E p \in Producers : PAddCS(p)) \/ (\E c \in LiveConns : HClearCS(c))

\* the running task runs on to its next await
RunStep == cur # NoProc /\ NextLive

\* the event loop runs every ready task: a timer whose delay has elapsed is
\* woken and resumed, its transport write completes, a task that was handed
\* the batcher lock (asyncio.Lock wakes its waiters first in, first out)
\* resumes, and the running task continues until it suspends.  Nothing makes
\* a producer broadcast again, a client close, or a send of a producer return.
SpecLive ==
    /\ InitRegistry /\ [][NextLive]_vars
    /\ \A t \in TaskIds : SF_vars(TimerStep(t))
    /\ SF_vars(LockStep)
    /\ WF_vars(RunStep)

\* a priority-0 message waits in the queue of c
QueuedDeferred(c) == \E i \in DOMAIN _pending[c] : _pending[c][i].priority = 0

\* the frame carries a replace patch for the status of task 7, the only
\* priority-0 message that is broadcast
CarriesUpdate(frame) ==
    \E i \in DOMAIN OutItems(<<frame>>) :
        /\ OutItems(<<frame>>)[i].k = "p"
        /\ OutItems(<<frame>>)[i].v.op = "replace"
        /\ OutItems(<<frame>>)[i].v.path = "/tasks/7/status"

\* a flush callback (of a timer or of a send_to_connection) is handing such a
\* frame to the transport of c
UpdateInFlight(c) ==
    \E i \in DOMAIN wire[c] : wire[c][i].by \notin Conns /\ CarriesUpdate(wire[c][i].frame)

\* C24  Delayed flush eventually delivers: under fair scheduling of the timers
\* and of the batcher lock, a priority-0 message queued for a subscriber leads
\* to a state in which the queue is empty and a flush callback hands a frame
\* with the update (the message or the one that superseded it) to the
\* subscriber's transport, or the subscriber is deregistered; no further
\* broadcast is needed for that.
C24_DelayedFlushDelivers ==
    \A c \in Conns :
        QueuedDeferred(c) ~>
            (_pending[c] = <<>> /\ (UpdateInFlight(c) \/ c \notin _connections))

\* a timer is writing a deferred update to a registered subscriber
C24_Witness ==
    \E t \in TaskIds :
        /\ tasks[t].st = "write"
        /\ tasks[t].conn \in _connections
        /\ UpdateInFlight(tasks[t].conn)


----------------------------------------------------------------------------
(* InMemoryCache: services/cache.py 46-106.  Every method runs under       *)
(* self._lock and awaits nothing while it holds it: a call is one step.    *)

\* keys and patterns are strings, here the sequences of their characters
CacheKeys == {<<"a", "1">>, <<"a", "2">>, <<"b", "1">>, <<"b", "2">>}
CachePatterns == {<<"a", "*">>, <<"b", "*">>, <<"*">>, <<"a", "1">>}
CacheValues == {"v1", "v2"}
\* what the callers of set pass: a value and its lifetime in seconds
CacheInputs == {[value |-> "v1", ex |-> 1], [value |-> "v2", ex |-> 2]}

\* Python's key in list, list.remove(key): the first occurrence goes
InList(s, k) == \E i \in 1..Len(s) : s[i] = k
ListRemove(s, k) ==
    LET i == CHOOSE j \in 1..Len(s) : s[j] = k /\ \A h \in 1..(j - 1) : s[h] # k
    IN  SubSeq(s, 1, i - 1) \o SubSeq(s, i + 1, Len(s))

\* del d[key] and d[key] = entry
DictDel(d, k) == [j \in DOMAIN d \ {k} |-> d[j]]
DictPut(d, k, e) == [j \in DOMAIN d \cup {k} |-> IF j = k THEN e ELSE d[j]]

\* a mutant of Touch: a key that is in the list keeps its place
TouchKeepsPlace(order, k) == IF InList(order, k) THEN order ELSE Append(order, k)

\* lines 61-63 and 82-84: the key moves to the end of the access order
Touch(order, k) == Append(IF InList(order, k) THEN ListRemove(order, k) ELSE order, k)

\* the use of k is the latest
Used(k) == Append(SelectSeq(recency, LAMBDA x : x # k), k)

\* what get returns for key k, lines 57-70: the value of a live entry, or None
GetResult(d, t, k) == IF k \in DOMAIN d /\ t < d[k].expiry THEN d[k].value ELSE "None"

\* get, lines 55-70
CGet(k) ==
    /\ IF k \in DOMAIN _cache
       THEN IF now < _cache[k].expiry
            THEN /\ _access_order' = Touch(_access_order, k)
                 /\ recency' = Used(k)
                 /\ UNCHANGED _cache
            ELSE /\ _cache' = DictDel(_cache, k)
                 /\ _access_order' = IF InList(_access_order, k)
                                     THEN ListRemove(_access_order, k) ELSE _access_order
                 /\ UNCHANGED recency
       ELSE UNCHANGED <<_cache, _access_order, recency>>
    /\ clast' = [op |-> "get", evicted |-> <<>>]
    /\ UNCHANGED <<now, batcherVars, registryVars, pc, loc, wire, cur, last,
                 repoVars>>

\* lines 75-78: while len(self._cache) >= self._max_size and self._access_order
RECURSIVE Evict(_, _, _)
Evict(d, order, out) ==
    IF Cardinality(DOMAIN d) >= MaxCacheSize /\ order # <<>>
    THEN Evict(IF Head(order) \in DOMAIN d THEN DictDel(d, Head(order)) ELSE d,
               Tail(order), Append(out, Head(order)))
    ELSE [cache |-> d, order |-> order, out |-> out]

\* set, lines 72-85
CSet(k, v, ex) ==
    /\ LET ev == Evict(_cache, _access_order, <<>>)
       IN  /\ _cache' = DictPut(ev.cache, k, [value |-> v, expiry |-> now + ex])
           /\ _access_order' = Touch(ev.order, k)
           /\ clast' = [op |-> "set", evicted |-> ev.out]
    /\ recency' = Used(k)
    /\ UNCHANGED <<now, batcherVars, registryVars, pc, loc, wire, cur, last,
                 repoVars>>

\* delete, lines 88-95
CDelete(k) ==
    /\ IF k \in DOMAIN _cache
       THEN /\ _cache' = DictDel(_cache, k)
            /\ _access_order' = IF InList(_access_order, k)
                                THEN ListRemove(_access_order, k) ELSE _access_order
       ELSE UNCHANGED <<_cache, _access_order>>
    /\ clast' = [op |-> "delete", evicted |-> <<>>]
    /\ UNCHANGED <<now, recency, batcherVars, registryVars, pc, loc, wire, cur, last,
                 repoVars>>

\* pattern.rstrip("*")
RECURSIVE RStrip(_)
RStrip(p) == IF p # <<>> /\ p[Len(p)] = "*" THEN RStrip(SubSeq(p, 1, Len(p) - 1)) ELSE p

\* k.startswith(prefix)
StartsWith(k, prefix) == Len(prefix) <= Len(k) /\ SubSeq(k, 1, Len(prefix)) = prefix

\* the loop of lines 102-105 over keys_to_delete
RECURSIVE RemoveKeys(_, _)
RemoveKeys(order, ks) ==
    IF ks = {} THEN order
    ELSE LET k == CHOOSE x \in ks : TRUE
         IN  RemoveKeys(IF InList(order, k) THEN ListRemove(order, k) ELSE order, ks \ {k})

\* delete_pattern, lines 97-106
CDeletePattern(pattern) ==
    /\ LET keys_to_delete == {k \in DOMAIN _cache : StartsWith(k, RStrip(pattern))}
       IN  /\ _cache' = [j \in DOMAIN _cache \ keys_to_delete |-> _cache[j]]
           /\ _access_order' = RemoveKeys(_access_order, keys_to_delete)
    /\ clast' = [op |-> "delete_pattern", evicted |-> <<>>]
    /\ UNCHANGED <<now, recency, batcherVars, registryVars, pc, loc, wire, cur, last,
                 repoVars>>

\* a second passes
CTick ==
    /\ now < MaxTime
    /\ now' = now + 1
    /\ UNCHANGED <<_cache, _access_order, recency, clast>>
    /\ UNCHANGED <<batcherVars, registryVars, pc, loc, wire, cur, last,
                 repoVars>>

NextCache ==
    \/ \E k \in CacheKeys : CGet(k)
    \/ \E k \in CacheKeys, i \in CacheInputs : CSet(k, i.value, i.ex)
    \/ \E k \in CacheKeys : CDelete(k)
    \/ \E pattern \in CachePatterns : CDeletePattern(pattern)
    \/ CTick

SpecCache == InitRegistry /\ [][NextCache]_vars

----------------------------------------------------------------------------
(* Claims on the cache: SpecCache                                          *)

\* the place of the last use of k among the uses
UsePos(k) == CHOOSE i \in 1..Len(recency) : recency[i] = k

\* the entries that have not expired
LiveKeys == {k \in DOMAIN _cache : now < _cache[k].expiry}

\* C25  LRU eviction: the cache never holds more than max_size entries; and a
\* set with a new key, when the cache holds max_size live entries, removes
\* exactly the entry whose last use (a set, or a get that returned its value)
\* is the oldest, leaves every other entry as it was and readable, and makes
\* the new entry readable.
C25_LruEviction ==
    /\ [](Cardinality(DOMAIN _cache) <= MaxCacheSize)
    /\ [][\A k \in CacheKeys :
            (/\ k \notin DOMAIN _cache
             /\ k \in DOMAIN _cache'
             /\ Cardinality(LiveKeys) = MaxCacheSize)
            => \E lru \in DOMAIN _cache :
                /\ \A j \in DOMAIN _cache : UsePos(lru) <= UsePos(j)
                /\ DOMAIN _cache' = (DOMAIN _cache \ {lru}) \cup {k}
                /\ \A j \in DOMAIN _cache \ {lru} :
                      /\ _cache'[j] = _cache[j]
                      /\ GetResult(_cache', now', j) = _cache[j].value
                /\ GetResult(_cache', now', k) \in CacheValues
                /\ GetResult(_cache', now', lru) = "None"]_vars

\* no entry has expired, the cache is full, and the set of a new key has
\* evicted one key, whose last use is older than that of every entry kept
C25_Witness ==
    /\ clast.op = "set"
    /\ now = 0
    /\ Len(clast.evicted) = 1
    /\ clast.evicted[1] \notin DOMAIN _cache
    /\ Cardinality(LiveKeys) = MaxCacheSize
    /\ \A j \in DOMAIN _cache : UsePos(clast.evicted[1]) < UsePos(j)


----------------------------------------------------------------------------
(* Claims on the two locks: SpecForced                                     *)

AllTasks == Procs \cup TaskIds

\* in this step p asks for lock l
Requests(l, p) == ~(Holds(l, p) \/ Waits(l, p)) /\ (Holds(l, p)' \/ Waits(l, p)')

\* the holder of the batcher lock is at a step that needs no other lock:
\* lines 91-113, 125-127, 198-204, 208-212
BlockHolderGoes ==
    LET h == block.holder
    IN  \/ h = NoProc
        \/ h \in TaskIds /\ tasks[h].st \in {"wait", "write"}
        \/ h \in Producers /\ pc[h] = "add_cs"
        \/ h \in Conns /\ pc[h] = "clear_cs"
        \/ h = Flusher /\ pc[h] = "flush_cs"

\* the holder of the registry lock is at a step that needs no other lock, or
\* it is in batcher.clear and holds or awaits the batcher lock
RlockHolderGoes ==
    LET h == rlock.holder
    IN  \/ h = NoProc
        \/ h \in Conns /\ pc[h] \in {"conn_cs", "sub_cs", "unsub_cs", "disc_cs"}
        \/ h \in Conns /\ pc[h] = "clear_cs" /\ (Holds(block, h) \/ Waits(block, h))

\* no task that holds or awaits the batcher lock waits for the registry
\* lock, unless it is the holder of the registry lock itself; each lock's
\* holder can go on; and the registry lock is never requested by a task
\* that holds or awaits the batcher lock
LockOrder ==
    /\ [](\A p \in AllTasks : ~((Holds(block, p) \/ Waits(block, p)) /\ Waits(rlock, p)))
    /\ [](BlockHolderGoes /\ RlockHolderGoes)
    /\ [][rlock' # rlock =>
            \A p \in AllTasks :
                Requests(rlock, p) => ~(Holds(block, p) \/ Waits(block, p))]_vars

\* C26 (as stated)  Deadlock freedom, and the batcher lock is only ever
\* requested by a task that holds the registry lock.
C26_BatcherUnderRegistry ==
    /\ LockOrder
    /\ [][block' # block =>
            \A p \in AllTasks : Requests(block, p) => Holds(rlock, p)]_vars

\* C26 (amended)  Deadlock freedom: the tasks never wait for the two locks
\* in a cycle and a held lock can always be released; the locks nest in one
\* order only: the batcher lock is requested by a task that holds the
\* registry lock (disconnect) or that has nothing to do with the registry
\* lock (add_message, flush_all, a timer), and the registry lock is never
\* requested by a task that holds or awaits the batcher lock.
C26_DeadlockFree ==
    /\ LockOrder
    /\ [][block' # block =>
            \A p \in AllTasks :
                Requests(block, p) => (Holds(rlock, p) \/ ~Waits(rlock, p))]_vars

\* disconnect holds the registry lock and waits for the batcher lock, which a
\* timer holds while it writes; another handler waits for the registry lock
C26_Witness ==
    \E c \in Conns, t \in TaskIds :
        /\ Holds(rlock, c) /\ Waits(block, c)
        /\ Holds(block, t) /\ tasks[t].st = "write"
        /\ rlock.q # <<>>


----------------------------------------------------------------------------
(* Further claims on the batcher alone: SpecBatcher                        *)

\* C27  Flush tears down the timer: after a call that flushed the queue of a
\* subscriber (add_message at priority >= 1 or at max_batch_size, flush_all,
\* a timer) the queue is empty and the subscriber has no outstanding timer;
\* and a timer is outstanding only while the queue is not empty.
C27_FlushTearsDownTimer ==
    /\ Flushed => /\ _pending[last.conn] = <<>>
                  /\ OutstandingFor(last.conn) = {}
    /\ \A c \in Conns : OutstandingFor(c) # {} => _pending[c] # <<>>


----------------------------------------------------------------------------
(* Further claims on the registry: Spec                                    *)

\* C28  Membership index consistency: whenever the registry lock is free, a
\* connection is in the member set of a channel if and only if the channel
\* is in the channel set of the connection.
C28_MembershipInverse ==
    rlock.holder = NoProc =>
        \A c \in Conns, ch \in Channels :
            c \in _subscriptions[ch] <=> ch \in _connection_channels[c]

\* the lock is free; one connection is subscribed, the other one has
\* unsubscribed and is still registered
C28_Witness ==
    /\ rlock.holder = NoProc
    /\ "c1" \in _subscriptions["tasks"] /\ "tasks" \in _connection_channels["c1"]
    /\ "c2" \in _connections /\ pc["c2"] = "recv"
    /\ "c2" \notin _subscriptions["tasks"] /\ _connection_channels["c2"] = {}


----------------------------------------------------------------------------
(* Claims on the order of transmission: SpecOrder                          *)

\* one stream endpoint, two producers, the timers and a caller of
\* flush_connection
NextOrder ==
    \/ \E c \in LiveConns : HAccept(c)
    \/ \E c \in LiveConns : HConnCS(c)
    \/ \E c \in LiveConns : HSubCS(c)
    \/ \E c \in LiveConns : HList(c)
    \/ \E c \in LiveConns : HImmIO(c)
    \/ \E c \in LiveConns : HClose(c)
    \/ \E c \in LiveConns : HDiscCS(c)
    \/ \E c \in LiveConns : HClearCS(c)
    \/ \E p \in Producers2 : PBroadcast(p)
    \/ \E p \in Producers2 : PLoop(p)
    \/ \E p \in Producers2 : PAddCS(p)
    \/ \E p \in Producers2 : PSendIO(p)
    \/ \E t \in TaskIds : TWake(t)
    \/ \E t \in TaskIds : TFlushCS(t)
    \/ \E t \in TaskIds : TWriteIO(t)
    \/ \E c \in LiveConns : FCall(c)
    \/ FFlushCS
    \/ FSendIO

SpecOrder == InitRegistry /\ [][NextOrder]_vars

\* s without its i-th element
DropAt(s, i) == SubSeq(s, 1, i - 1) \o SubSeq(s, i + 1, Len(s))

\* the messages that a flush of the queue of c drains in this step: the
\* queue, with the message that a producer at the lock for c is adding
DrainedNow(c) ==
    IF \E p \in Producers2 : pc[p] = "add_cs" /\ pc'[p] # "add_cs" /\ loc[p].conn = c
    THEN LET p == CHOOSE p \in Producers2 :
                      pc[p] = "add_cs" /\ pc'[p] # "add_cs" /\ loc[p].conn = c
         IN  Append(_pending[c], Adding(p))
    ELSE _pending[c]

\* C29  Transmission order equals flush order: in every step the frames in
\* flight to one subscriber keep their order; a frame joins them only at the
\* tail, and only as the frame of the messages drained from the queue in
\* that very step (or as an immediate message of the handler), so that the
\* order of the hand-overs is the order of the drains; a step that drains the
\* queue by a flush hands its frame over at once.
C29_TransmissionOrder ==
    [][\A c \in Conns :
        LET n == Len(wire[c])
            flushes == /\ DrainedNow(c) # <<>>
                       /\ _pending'[c] = <<>>
                       /\ ~(pc[c] = "clear_cs" /\ pc'[c] # "clear_cs")
        IN  \/ /\ wire'[c] = wire[c]
               /\ ~flushes
            \/ /\ Len(wire'[c]) = n + 1
               /\ SubSeq(wire'[c], 1, n) = wire[c]
               /\ IF wire'[c][n + 1].by = c
                  THEN _pending'[c] = _pending[c]
                  ELSE /\ flushes
                       /\ wire'[c][n + 1].frame = Head(FlushBatch(DrainedNow(c)))
            \/ /\ Len(wire'[c]) = n - 1
               /\ \E i \in 1..n : wire'[c] = DropAt(wire[c], i)
               /\ _pending'[c] = _pending[c]]_vars

\* two frames are in flight to c1: the send of a producer, handed over
\* after it released the lock, and behind it the write of a timer that
\* drained the queue later and holds the lock
C29_Witness ==
    /\ Len(wire["c1"]) = 2
    /\ wire["c1"][1].by \in Producers2
    /\ wire["c1"][2].by \in TaskIds
    /\ block.holder = wire["c1"][2].by


----------------------------------------------------------------------------
(* The shape of a flush: SpecBatcher                                       *)

\* C30  Flush output shape: a flush with batching enabled returns the empty
\* list when nothing was queued, and otherwise a list of exactly one frame:
\* the optimized entry itself when there is exactly one, else one batch_patch
\* envelope whose patches are the optimized entries in order and whose count
\* is the length of that list.
C30_FlushShape ==
    Flushed =>
        LET out == last.ret.batch
            entries == _optimize_batch(Drained)
        IN  IF Drained = <<>> THEN out = <<>>
            ELSE /\ Len(out) = 1
                 /\ IF Len(entries) = 1
                    THEN out[1] = entries[1]
                    ELSE /\ out[1].type = BATCH_PATCH
                         /\ out[1].data.patches = entries
                         /\ out[1].data.count = Len(out[1].data.patches)

\* a flush of three messages returned an envelope of two entries
C30_Witness ==
    /\ Flushed
    /\ Len(Drained) = 3
    /\ Len(last.ret.batch) = 1
    /\ last.ret.batch[1].type = BATCH_PATCH
    /\ last.ret.batch[1].data.count = 2


----------------------------------------------------------------------------
(* Last claims on the registry: Spec                                       *)

\* the message that the handler of c passes to send_immediate from where it
\* is: the snapshot after list_tasks, the pong in the receive loop
ImmediateFrame(c) ==
    IF pc[c] = "list" THEN Frame(SNAPSHOT, [tasks |-> "all"])
    ELSE Frame(PONG, [timestamp |-> 1])

\* C31  send_immediate bypasses the batcher: the call hands exactly one
\* frame, {type, data} as given, to the transport of the subscriber, behind
\* the frames already handed; neither the call nor its successful return
\* touches the queue or the timer of the subscriber (nor the batcher lock).
C31_ImmediateBypasses ==
    [][\A c \in Conns :
           /\ (pc[c] # "imm_io" /\ pc'[c] = "imm_io") =>
                  /\ wire'[c] = Append(wire[c], [by |-> c, frame |-> ImmediateFrame(c)])
                  /\ UNCHANGED <<_pending, _flush_tasks, tasks, block>>
           /\ (pc[c] = "imm_io" /\ pc'[c] = "recv") =>
                  /\ Len(wire'[c]) = Len(wire[c]) - 1
                  /\ \A i \in 1..Len(wire'[c]) : wire'[c][i].by # c
                  /\ UNCHANGED <<_pending, _flush_tasks, tasks, block>>]_vars

\* the pong of c1 is on its way while a message enqueued earlier for c1 is
\* still pending, with its timer
C31_Witness ==
    /\ pc["c1"] = "imm_io"
    /\ \E i \in 1..Len(wire["c1"]) :
          wire["c1"][i].by = "c1" /\ wire["c1"][i].frame.type = PONG
    /\ _pending["c1"] # <<>> /\ OutstandingFor("c1") # {}


\* the handler of c takes a step of its way out: receive_json raises, or the
\* disconnect of the finally clause advances
StreamEnds(c) ==
    \/ pc[c] = "recv" /\ pc'[c] = "disc_cs"
    \/ pc[c] \in {"disc_cs", "clear_cs"} /\ loc[c].back = "end" /\ pc'[c] # pc[c]

\* what the manager holds for subscriber d, and where the handler of d is
SubscriberView(d) ==
    <<d \in _connections, _connection_channels[d],
      {ch \in Channels : d \in _subscriptions[ch]}, _pending[d], pc[d]>>

\* C32  Stream failure is scoped to one subscriber and always cleaned up: a
\* handler that has returned leaves its id in no index of the registry, and
\* the steps by which the handler of c ends after a failed read (the failure
\* itself, then disconnect) change neither the registry entry, the channel
\* memberships and the pending queue of any other subscriber nor the place
\* of its handler.
C32_StreamFailureScoped ==
    /\ [](\A c \in Conns : pc[c] = "end" => Unregistered(c))
    /\ [][\A c \in Conns :
             StreamEnds(c) =>
                 \A d \in Conns \ {c} : SubscriberView(d)' = SubscriberView(d)]_vars

\* reading a frame of c1 has failed in the receive loop and disconnect is
\* called from the finally clause; c1 had been removed by a failed
\* send_immediate and had subscribed again since, so that it is still a
\* member of a channel; c2 is subscribed, reading, with a message pending
C32_Witness ==
    /\ pc["c1"] = "disc_cs" /\ loc["c1"].back = "end"
    /\ "c1" \notin _connections /\ _connection_channels["c1"] # {}
    /\ pc["c2"] = "recv" /\ "c2" \in _connections
    /\ _connection_channels["c2"] # {} /\ _pending["c2"] # <<>>


----------------------------------------------------------------------------
(* TaskRepository.get_task and update_task over CacheService, with the     *)
(* in-memory cache behind it: services/task_repository.py 84-108 and       *)
(* 148-180, services/cache.py 175-202 and 307-326.  A call on the cache    *)
(* awaits nothing that suspends; session.execute, commit and refresh do.   *)

TASK_DETAIL_TTL == 120
TASK_DETAIL_PREFIX == "tasks:detail:"
TASK_LIST_PREFIX == "tasks:list:"

\* cache.py 162-173, for one short argument: the prefix, then the argument
_generate_key(prefix, arg) == <<prefix, arg>>

\* json.dumps and json.loads of a task: the text and the dict read from it
json_dumps(d) == <<"{", "id", ":", d.id, ",", "title", ":", d.title, "}">>
json_loads(text) == [id |-> text[4], title |-> text[8]]

\* task_repository.py 166-168: the columns named by the caller are set
Updated(row) == [row EXCEPT !.title = "Updated Title"]

\* every update_task has returned
UpdateReturned == \A u \in Updaters : rpc[u] = "done"

\* get_task up to the await of session.execute, lines 86-100: the cached
\* detail is returned (CacheService.get, InMemoryCache.get), or the query
\* is sent
GCall(g) ==
    /\ rpc[g] = "idle"
    /\ LET key == _generate_key(TASK_DETAIL_PREFIX, TheTask)
       IN  IF key \in DOMAIN _cache
           THEN IF now < _cache[key].expiry
                THEN /\ _access_order' = Touch(_access_order, key)
                     /\ recency' = Used(key)
                     /\ rloc' = [rloc EXCEPT ![g] =
                                    [after |-> UpdateReturned, row |-> NoRow,
                                     ret |-> json_loads(_cache[key].value)]]
                     /\ UNCHANGED <<_cache, rpc>>
                ELSE /\ _cache' = DictDel(_cache, key)
                     /\ _access_order' = IF InList(_access_order, key)
                                         THEN ListRemove(_access_order, key)
                                         ELSE _access_order
                     /\ rloc' = [rloc EXCEPT ![g] =
                                    [after |-> UpdateReturned, row |-> NoRow, ret |-> NoRow]]
                     /\ rpc' = [rpc EXCEPT ![g] = "execute"]
                     /\ UNCHANGED recency
           ELSE /\ rloc' = [rloc EXCEPT ![g] =
                               [after |-> UpdateReturned, row |-> NoRow, ret |-> NoRow]]
                /\ rpc' = [rpc EXCEPT ![g] = "execute"]
                /\ UNCHANGED <<_cache, _access_order, recency>>
    /\ clast' = [op |-> "get", evicted |-> <<>>]
    /\ UNCHANGED <<now, db, batcherVars, registryVars, pc, loc, wire, cur, last>>

\* lines 95-101: the database runs the query of get_task
GExecute(g) ==
    /\ rpc[g] = "execute"
    /\ rloc' = [rloc EXCEPT ![g].row = db]
    /\ rpc' = [rpc EXCEPT ![g] = "loaded"]
    /\ UNCHANGED <<cacheVars, db, batcherVars, registryVars, pc, loc, wire, cur, last>>

\* lines 103-108: get_task resumes with the row, caches it
\* (CacheService.set, InMemoryCache.set) and returns it
GStore(g) ==
    /\ rpc[g] = "loaded"
    /\ IF rloc[g].row # NoRow
       THEN LET key == _generate_key(TASK_DETAIL_PREFIX, TheTask)
                ev == Evict(_cache, _access_order, <<>>)
            IN  /\ _cache' = DictPut(ev.cache, key,
                                     [value |-> json_dumps(rloc[g].row),
                                      expiry |-> now + TASK_DETAIL_TTL])
                /\ _access_order' = Touch(ev.order, key)
                /\ clast' = [op |-> "set", evicted |-> ev.out]
                /\ recency' = Used(key)
       ELSE UNCHANGED <<_cache, _access_order, clast, recency>>
    /\ rloc' = [rloc EXCEPT ![g].ret = rloc[g].row]
    /\ rpc' = [rpc EXCEPT ![g] = "idle"]
    /\ UNCHANGED <<now, db, batcherVars, registryVars, pc, loc, wire, cur, last>>

\* update_task is called and sends its query: lines 150-159
UCall(u) ==
    /\ rpc[u] = "idle"
    /\ rpc' = [rpc EXCEPT ![u] = "execute"]
    /\ rloc' = [rloc EXCEPT ![u] = NoRepoCall]
    /\ UNCHANGED <<cacheVars, db, batcherVars, registryVars, pc, loc, wire, cur, last>>

\* lines 159-163: the database runs the query of update_task; without a row
\* the call returns None
UExecute(u) ==
    /\ rpc[u] = "execute"
    /\ rloc' = [rloc EXCEPT ![u].row = db]
    /\ rpc' = [rpc EXCEPT ![u] = IF db = NoRow THEN "done" ELSE "commit"]
    /\ UNCHANGED <<cacheVars, db, batcherVars, registryVars, pc, loc, wire, cur, last>>

\* lines 166-171: the columns are set and the database commits them
UCommit(u) ==
    /\ rpc[u] = "commit"
    /\ db' = Updated(rloc[u].row)
    /\ rpc' = [rpc EXCEPT ![u] = "refresh"]
    /\ UNCHANGED <<cacheVars, rloc, batcherVars, registryVars, pc, loc, wire, cur, last>>

\* line 172: the database runs the query of refresh
URefresh(u) ==
    /\ rpc[u] = "refresh"
    /\ rloc' = [rloc EXCEPT ![u].row = db]
    /\ rpc' = [rpc EXCEPT ![u] = "invalidate"]
    /\ UNCHANGED <<cacheVars, db, batcherVars, registryVars, pc, loc, wire, cur, last>>

\* lines 174-180: update_task resumes, invalidates (cache.py 317-326: delete
\* of the detail key, delete_pattern of the lists) and returns the task
UInvalidate(u) ==
    /\ rpc[u] = "invalidate"
    /\ LET key == _generate_key(TASK_DETAIL_PREFIX, TheTask)
           d == IF key \in DOMAIN _cache THEN DictDel(_cache, key) ELSE _cache
           order == IF key \in DOMAIN _cache /\ InList(_access_order, key)
                    THEN ListRemove(_access_order, key) ELSE _access_order
           keys_to_delete == {k \in DOMAIN d : StartsWith(k, RStrip(<<TASK_LIST_PREFIX, "*">>))}
       IN  /\ _cache' = [j \in DOMAIN d \ keys_to_delete |-> d[j]]
           /\ _access_order' = RemoveKeys(order, keys_to_delete)
    /\ clast' = [op |-> "delete_pattern", evicted |-> <<>>]
    /\ rloc' = [rloc EXCEPT ![u].ret = rloc[u].row]
    /\ rpc' = [rpc EXCEPT ![u] = "done"]
    /\ UNCHANGED <<now, recency, db, batcherVars, registryVars, pc, loc, wire, cur, last>>

NextRepo ==
    \/ \E g \in Getters : GCall(g) \/ GExecute(g) \/ GStore(g)
    \/ \E u \in Updaters : UCall(u) \/ UExecute(u) \/ UCommit(u) \/ URefresh(u)
                               \/ UInvalidate(u)
    \/ CTick

SpecRepo == InitRegistry /\ [][NextRepo]_vars

----------------------------------------------------------------------------
(* Claims on the task repository: SpecRepo                                 *)

\* C33  No stale task detail after an update: a get_task that was called
\* after update_task had returned, and has returned a task, has returned
\* the updated task, whatever other get_task ran beside the update.
C33_NoStaleDetail ==
    \A g \in Getters :
        (rpc[g] = "idle" /\ rloc[g].after /\ rloc[g].ret # NoRow) =>
            rloc[g].ret = Updated(Original)

====
